---- MODULE Spec2Model ----
(***************************************************************************)
(* Model of the ratedwheels2 driver-review application.                    *)
(*                                                                         *)
(*  - POST /api/reviews (src/app/api/reviews/route.ts): the moderated      *)
(*    handler (lines 256-347) and the earlier handler with rollback        *)
(*    (lines 46-135), both running against the tables review_rate_limits,  *)
(*    reviews and review_tags.                                             *)
(*  - createDriver (CreateDriverForm): the insert into drivers.            *)
(*  - the handle normalizers of the search page, SearchForm and            *)
(*    CreateDriverForm.                                                    *)
(*                                                                         *)
(* Strings are sequences of one-character strings.  JavaScript numbers are *)
(* records [k, v]: k = "fin" with v the value in tenths, or k = "nan",     *)
(* "inf", "ninf".  Code between two awaits runs atomically (one event-loop *)
(* turn); every database call is one atomic step of the database.          *)
(***************************************************************************)
EXTENDS Integers, Sequences, FiniteSets, TLC

VARIABLES env, review_rate_limits, reviews, review_tags, drivers, req, created, hq, hstep,
          search, form, rf, city

vars ==
    <<env, review_rate_limits, reviews, review_tags, drivers, req, created, hq, hstep,
      search, form, rf, city>>

dbVars == <<review_rate_limits, reviews, review_tags, drivers>>

uiVars == <<search, form, rf, city>>

normVars == <<hq, hstep, uiVars>>

(***************************************************************************)
(* Characters and JavaScript string primitives                             *)
(***************************************************************************)
UpperLetters == <<"A","B","C","D","E","F","G","H","I","J","K","L","M",
                  "N","O","P","Q","R","S","T","U","V","W","X","Y","Z">>

LowerLetters == <<"a","b","c","d","e","f","g","h","i","j","k","l","m",
                  "n","o","p","q","r","s","t","u","v","w","x","y","z">>

Digits == {"0","1","2","3","4","5","6","7","8","9"}

Uppers == {UpperLetters[i] : i \in DOMAIN UpperLetters}

Lowers == {LowerLetters[i] : i \in DOMAIN LowerLetters}

IsUpper(c) == c \in Uppers

IsLower(c) == c \in Lowers

\* the sequence with the same elements as the function f on 1..n
AsSeq(f) == SubSeq(f, 1, Len(f))

IsLetter(c) == IsUpper(c) \/ IsLower(c)

IsDigit(c) == c \in Digits

\* \s of a JavaScript regular expression, and what String.prototype.trim strips
Spaces == {" ", "\t", "\n"}

IsSpace(c) == c \in Spaces

\* the class [\u200B-\u200D\uFEFF]; the token "ZWSP" stands for U+200B, "ZWJ" for U+200D
IsZeroWidth(c) == c \in {"ZWSP", "ZWJ"}

\* \w of a JavaScript regular expression
IsWord(c) == IsLetter(c) \/ IsDigit(c) \/ c = "_"

ToUpperChar(c) ==
    IF IsLower(c)
    THEN UpperLetters[CHOOSE i \in DOMAIN LowerLetters : LowerLetters[i] = c]
    ELSE c

ToLowerChar(c) ==
    IF IsUpper(c)
    THEN LowerLetters[CHOOSE i \in DOMAIN UpperLetters : UpperLetters[i] = c]
    ELSE c

\* String.prototype.toLowerCase
ToLowerCase(s) == AsSeq([i \in DOMAIN s |-> ToLowerChar(s[i])])

\* String.prototype.trim
Trim(s) ==
    LET keep == {i \in DOMAIN s : ~IsSpace(s[i])}
    IN  IF keep = {} THEN <<>>
        ELSE LET lo == CHOOSE i \in keep : \A j \in keep : i <= j
                 hi == CHOOSE i \in keep : \A j \in keep : j <= i
             IN  SubSeq(s, lo, hi)

\* s.replace(/[\u200B-\u200D\uFEFF]/g, '')
StripZeroWidth(s) == SelectSeq(s, LAMBDA c : ~IsZeroWidth(c))

\* s.replace(/[class]+/g, c): every maximal run of characters of the class becomes c
ReplaceRuns(s, class, c) ==
    LET marked == [i \in DOMAIN s |->
                     IF s[i] \in class
                     THEN <<c, i = 1 \/ s[i - 1] \notin class>>
                     ELSE <<s[i], TRUE>>]
        kept == SelectSeq(marked, LAMBDA m : m[2])
    IN  AsSeq([i \in DOMAIN kept |-> kept[i][1]])

\* s.replace(/\s+/g, ' ')
CollapseSpace(s) == ReplaceRuns(s, Spaces, " ")

\* String.prototype.includes
Includes(s, t) ==
    \/ t = <<>>
    \/ \E i \in 1..(Len(s) - Len(t) + 1) : \A j \in DOMAIN t : s[i + j - 1] = t[j]

\* String.prototype.split(','), as a sequence of fields
RECURSIVE SplitComma(_)
SplitComma(s) ==
    IF \A i \in DOMAIN s : s[i] # ","
    THEN <<s>>
    ELSE LET k == CHOOSE i \in DOMAIN s :
                      s[i] = "," /\ \A j \in 1..(i - 1) : s[j] # ","
         IN  <<SubSeq(s, 1, k - 1)>> \o SplitComma(SubSeq(s, k + 1, Len(s)))

(***************************************************************************)
(* JSON values and JavaScript conversions                                  *)
(*                                                                         *)
(* A JSON value is a record [t, s, n, a]: t is the type, s the characters  *)
(* of a string, n a number in tenths (or 0/1 for a boolean), a the         *)
(* elements of an array.  "big" is a numeric literal beyond the double     *)
(* range (1e999), which JSON.parse reads as Infinity.                      *)
(***************************************************************************)
Undefined == [t |-> "undef", s |-> <<>>, n |-> 0, a |-> <<>>]

Null == [t |-> "null", s |-> <<>>, n |-> 0, a |-> <<>>]

Str(s) == [t |-> "str", s |-> s, n |-> 0, a |-> <<>>]

Num(tenths) == [t |-> "num", s |-> <<>>, n |-> tenths, a |-> <<>>]

Big == [t |-> "big", s |-> <<>>, n |-> 0, a |-> <<>>]

Bool(b) == [t |-> "bool", s |-> <<>>, n |-> IF b THEN 1 ELSE 0, a |-> <<>>]

Arr(a) == [t |-> "arr", s |-> <<>>, n |-> 0, a |-> a]

Fin(tenths) == [k |-> "fin", v |-> tenths]

NaN == [k |-> "nan", v |-> 0]

Infinity == [k |-> "inf", v |-> 0]

NegInfinity == [k |-> "ninf", v |-> 0]

DigitValue(c) == CHOOSE d \in 0..9 : <<"0","1","2","3","4","5","6","7","8","9">>[d + 1] = c

RECURSIVE DecimalValue(_)
DecimalValue(s) ==
    IF s = <<>> THEN 0
    ELSE 10 * DecimalValue(SubSeq(s, 1, Len(s) - 1)) + DigitValue(s[Len(s)])

RECURSIVE DecimalString(_)
DecimalString(n) ==
    IF n < 10 THEN <<<<"0","1","2","3","4","5","6","7","8","9">>[n + 1]>>
    ELSE DecimalString(n \div 10) \o DecimalString(n % 10)

AllDigits(s) == s # <<>> /\ \A i \in DOMAIN s : IsDigit(s[i])

\* StringToNumber on the numeric strings used here: "", digits, digits "." digit,
\* each with an optional sign, and "Infinity"; any other text is NaN
StringToNumber(raw) ==
    LET s == Trim(raw)
        neg == s # <<>> /\ s[1] = "-"
        u == IF s # <<>> /\ s[1] \in {"-", "+"} THEN SubSeq(s, 2, Len(s)) ELSE s
        sign == IF neg THEN -1 ELSE 1
    IN  IF s = <<>> THEN Fin(0)
        ELSE IF AllDigits(u) THEN Fin(sign * 10 * DecimalValue(u))
        ELSE IF /\ Len(u) >= 3
                /\ u[Len(u) - 1] = "."
                /\ AllDigits(SubSeq(u, 1, Len(u) - 2))
                /\ IsDigit(u[Len(u)])
             THEN Fin(sign * (10 * DecimalValue(SubSeq(u, 1, Len(u) - 2))
                              + DigitValue(u[Len(u)])))
        ELSE IF u = <<"I","n","f","i","n","i","t","y">> /\ ~neg THEN Infinity
        ELSE IF u = <<"I","n","f","i","n","i","t","y">> THEN NegInfinity
        ELSE NaN

\* Number(v); an array here is never empty nor a single element
Number(v) ==
    CASE v.t = "undef" -> NaN
      [] v.t = "null" -> Fin(0)
      [] v.t = "bool" -> Fin(10 * v.n)
      [] v.t = "num" -> Fin(v.n)
      [] v.t = "big" -> Infinity
      [] v.t = "str" -> StringToNumber(v.s)
      [] v.t = "arr" -> NaN

\* Number.isFinite
IsFinite(x) == x.k = "fin"

\* String(v) for a value that is not undefined or null (non-negative numbers)
String(v) ==
    CASE v.t = "str" -> v.s
      [] v.t = "num" ->
            IF v.n % 10 = 0 THEN DecimalString(v.n \div 10)
            ELSE DecimalString(v.n \div 10) \o <<".">> \o DecimalString(v.n % 10)
      [] v.t = "big" -> <<"I","n","f","i","n","i","t","y">>
      [] v.t = "bool" -> IF v.n = 1 THEN <<"t","r","u","e">> ELSE <<"f","a","l","s","e">>
      [] OTHER -> <<>>

\* String(v ?? '')
StringOrEmpty(v) == IF v.t \in {"undef", "null"} THEN <<>> ELSE String(v)

(***************************************************************************)
(* route.ts, moderated handler: configuration and helpers                  *)
(***************************************************************************)
MAX_COMMENT_CHARS == 500

\* SLUR_BLOCKLIST: split(','), trim + toLowerCase each, filter(Boolean)
SLUR_BLOCKLIST(raw) ==
    SelectSeq([i \in DOMAIN SplitComma(raw) |-> ToLowerCase(Trim(SplitComma(raw)[i]))],
              LAMBDA w : w # <<>>)

\* isJsonObject(bodyUnknown) ? bodyUnknown : {}, after req.json().catch(() => ({}))
BodyObject(b) ==
    IF b.kind = "object" THEN b
    ELSE [kind |-> "object", driverId |-> Undefined, stars |-> Undefined,
          comment |-> Undefined, tagIds |-> Undefined]

\* a header is [has, s]: has = FALSE when headers.get returns null
NoHeader == [has |-> FALSE, s |-> <<>>]

Header(s) == [has |-> TRUE, s |-> s]

getIp(h) ==
    IF h.xff.has /\ h.xff.s # <<>>
    THEN Trim(SplitComma(h.xff.s)[1])
    ELSE IF h.xrip.has THEN h.xrip.s ELSE <<"0",".","0",".","0",".","0">>

\* sha256 is taken to be collision free: the digest is the tagged input
sha256(input) == <<"sha256">> \o input

hashIp(e, ip) ==
    LET salt == IF e.IP_HASH_SALT # <<>> THEN e.IP_HASH_SALT
                ELSE <<"r","a","t","e","d","w","h","e","e","l","s">>
    IN  sha256(salt \o <<":">> \o ip)

normalize(text) == Trim(CollapseSpace(StripZeroWidth(StringOrEmpty(text))))

\* faulty variant: the cut keeps one character too many
clampComment_KeepsOneMore(text) ==
    IF text = <<>> THEN <<>>
    ELSE IF Len(text) > MAX_COMMENT_CHARS THEN SubSeq(text, 1, MAX_COMMENT_CHARS + 1)
    ELSE text

clampComment(text) ==
    IF text = <<>> THEN <<>>
    ELSE IF Len(text) > MAX_COMMENT_CHARS THEN SubSeq(text, 1, MAX_COMMENT_CHARS)
    ELSE text

\* faulty variant: the text is compared without toLowerCase
containsSlur_CaseSensitive(text, blocklist) ==
    IF text = <<>> \/ blocklist = <<>> THEN FALSE
    ELSE \E i \in DOMAIN blocklist :
            blocklist[i] # <<>> /\ Includes(text, blocklist[i])

containsSlur(text, blocklist) ==
    IF text = <<>> \/ blocklist = <<>> THEN FALSE
    ELSE \E i \in DOMAIN blocklist :
            blocklist[i] # <<>> /\ Includes(ToLowerCase(text), blocklist[i])

\* \b before position i of s (between s[i-1] and s[i])
WordBoundary(s, i) ==
    LET before == i > 1 /\ i - 1 <= Len(s) /\ IsWord(s[i - 1])
        after == i >= 1 /\ i <= Len(s) /\ IsWord(s[i])
    IN  before # after

StartsAt(s, i, t) ==
    i + Len(t) - 1 <= Len(s) /\ \A j \in DOMAIN t : ToLowerChar(s[i + j - 1]) = t[j]

\* /\b(https?:\/\/|www\.)\S+/i
MatchesLink(s) ==
    \E i \in DOMAIN s :
        /\ WordBoundary(s, i)
        /\ \E p \in {<<"h","t","t","p",":","/","/">>, <<"h","t","t","p","s",":","/","/">>,
                     <<"w","w","w",".">>} :
              /\ StartsAt(s, i, p)
              /\ i + Len(p) <= Len(s)
              /\ ~IsSpace(s[i + Len(p)])

IsEmailLocal(c) == IsLetter(c) \/ IsDigit(c) \/ c \in {".", "_", "%", "+", "-"}

IsEmailDomain(c) == IsLetter(c) \/ IsDigit(c) \/ c \in {".", "-"}

\* /\b[A-Z0-9._%+-]+@[A-Z0-9.-]+\.[A-Z]{2,}\b/i
MatchesEmail(s) ==
    \E at \in DOMAIN s :
        /\ s[at] = "@"
        /\ \E i \in 1..(at - 1) :
              /\ WordBoundary(s, i)
              /\ \A j \in i..(at - 1) : IsEmailLocal(s[j])
        /\ \E dot \in (at + 2)..Len(s) :
              /\ s[dot] = "."
              /\ \A j \in (at + 1)..(dot - 1) : IsEmailDomain(s[j])
              /\ \E m \in (dot + 2)..Len(s) :
                    /\ \A j \in (dot + 1)..m : IsLetter(s[j])
                    /\ WordBoundary(s, m + 1)

\* /(^|\s)@[\w.]{2,}/
MatchesHandle(s) ==
    \E i \in DOMAIN s :
        /\ s[i] = "@"
        /\ i = 1 \/ IsSpace(s[i - 1])
        /\ i + 2 <= Len(s)
        /\ \A j \in (i + 1)..(i + 2) : IsWord(s[j]) \/ s[j] = "."

containsLinkOrHandle(text) ==
    IF text = <<>> THEN FALSE
    ELSE MatchesLink(text) \/ MatchesEmail(text) \/ MatchesHandle(text)

uniqStrings(arr) ==
    LET strs == [i \in DOMAIN arr |-> Trim(StringOrEmpty(arr[i]))]
        keep == [i \in DOMAIN arr |->
                   <<strs[i], strs[i] # <<>> /\ \A j \in 1..(i - 1) : strs[j] # strs[i]>>]
        out == SelectSeq(keep, LAMBDA m : m[2])
    IN  [i \in DOMAIN out |-> out[i][1]]

(***************************************************************************)
(* leo-profanity (external library, declared in src/types): check is TRUE  *)
(* when a space-delimited word of the sanitized text (lower-cased, '.' and *)
(* ',' turned into spaces) is in the dictionary; clean overwrites every    *)
(* such word with '*' characters, one per character of the word.           *)
(***************************************************************************)
LeoDictionary == {<<"a","s","s">>, <<"c","r","a","p">>}

LeoSanitize(s) ==
    AsSeq([i \in DOMAIN s |-> IF s[i] \in {".", ","} THEN " " ELSE ToLowerChar(s[i])])

\* the dictionary word w is a whole word of the sanitized text t at position i
LeoWordAt(t, i, w) ==
    /\ i + Len(w) - 1 <= Len(t)
    /\ \A j \in DOMAIN w : t[i + j - 1] = w[j]
    /\ i = 1 \/ IsSpace(t[i - 1])
    /\ i + Len(w) > Len(t) \/ IsSpace(t[i + Len(w)])

leoProfanity_check(s) ==
    LET t == LeoSanitize(s)
    IN  \E w \in LeoDictionary : \E i \in DOMAIN s : LeoWordAt(t, i, w)

leoProfanity_clean(s) ==
    LET t == LeoSanitize(s)
    IN  AsSeq([i \in DOMAIN s |->
                 IF \E w \in LeoDictionary : \E k \in (i - Len(w) + 1)..i :
                        k >= 1 /\ LeoWordAt(t, k, w)
                 THEN "*" ELSE s[i]])

(***************************************************************************)
(* Database rows and results.  "by" is the request that wrote the row (a   *)
(* history field, not a column).                                           *)
(***************************************************************************)
NoError == [code |-> "", message |-> ""]

\* Postgres unique_violation on review_rate_limits (driver_id, ip_hash)
UniqueViolation ==
    [code |-> "23505", message |-> "duplicate key value violates unique constraint"]

\* any other failure of a statement (timeout, lost connection, foreign key)
StatementFailure == [code |-> "57014", message |-> "canceling statement due to statement timeout"]

SqlNull == [null |-> TRUE, s |-> <<>>]

SqlText(s) == [null |-> FALSE, s |-> s]

NoReview == [id |-> 0, driver_id |-> <<>>, stars |-> NaN, comment |-> SqlNull, by |-> 0]

NoErrorString == "<absent>"

\* what the database answers to insert into review_rate_limits
RateLimitInsertResults(driverId, ipHash) ==
    IF \E row \in review_rate_limits : row.driver_id = driverId /\ row.ip_hash = ipHash
    THEN {UniqueViolation, StatementFailure}
    ELSE {NoError, StatementFailure}

InsertResults == {NoError, StatementFailure}

(***************************************************************************)
(* Requests.  req[r] is the handler invocation r: its position (pc), the   *)
(* locals of POST that live across an await, the response, and history     *)
(* fields: the raw body and header, the database results it saw, whether   *)
(* it threw, and the requests already answered when it arrived.            *)
(***************************************************************************)
MaxRequests == 2

Requests == 1..MaxRequests

NotCalled == [code |-> "-", message |-> ""]

IdleRequest ==
    [pc |-> "idle", handler |-> "", body |-> [kind |-> "malformed", driverId |-> Undefined,
                                              stars |-> Undefined, comment |-> Undefined,
                                              tagIds |-> Undefined],
     header |-> [xff |-> NoHeader, xrip |-> NoHeader],
     driverId |-> <<>>, stars |-> NaN, comment |-> SqlNull, tagIds |-> <<>>, ipHash |-> <<>>,
     review |-> NoReview, status |-> 0, ok |-> FALSE, error |-> NoErrorString,
     warning |-> NoErrorString,
     rlErr |-> NotCalled, reviewErr |-> NotCalled, tagsErr |-> NotCalled,
     rolledBack |-> FALSE, threw |-> FALSE, before |-> {}]

\* requests are numbered in the order they arrive
Arrives(r) ==
    /\ req[r].pc = "idle"
    /\ IF r = 1 THEN TRUE ELSE req[r - 1].pc # "idle"

Answered == {r \in Requests : req[r].pc = "done"}

\* NextResponse.json(...): the request ends with this response
Respond(q, status, ok, error, review) ==
    [q EXCEPT !.pc = "done", !.status = status, !.ok = ok, !.error = error,
              !.review = review]

(***************************************************************************)
(* route.ts lines 256-347: the moderated handler                           *)
(***************************************************************************)
\* x < n and x > n for a JavaScript number x and n in tenths (NaN compares false)
LessThan(x, n) == (x.k = "fin" /\ x.v < n) \/ x.k = "ninf"

GreaterThan(x, n) == (x.k = "fin" /\ x.v > n) \/ x.k = "inf"

\* faulty variant: the stars are compared without Number.isFinite
ValidationError_NoFiniteTest(driverId, stars) ==
    IF driverId = <<>> THEN "Missing driverId."
    ELSE IF LessThan(stars, 10) \/ GreaterThan(stars, 50) THEN "Stars must be 1-5."
    ELSE NoErrorString

\* lines 268-274: basic validation; the error of the 400 response, if any
ValidationError(driverId, stars) ==
    IF driverId = <<>> THEN "Missing driverId."
    ELSE IF ~IsFinite(stars) \/ LessThan(stars, 10) \/ GreaterThan(stars, 50)
    THEN "Stars must be 1-5."
    ELSE NoErrorString

\* faulty variant: the link check runs before the slur check
ModerationError_LinkFirst(commentNorm, blocklist) ==
    IF commentNorm # <<>> /\ containsLinkOrHandle(commentNorm)
    THEN "Please don't include links, emails, or social handles."
    ELSE IF commentNorm # <<>> /\ containsSlur(commentNorm, blocklist)
    THEN "Your comment contains prohibited language."
    ELSE NoErrorString

\* lines 279-287: the two hard blocks; the error of the 400 response, if any
ModerationError(commentNorm, blocklist) ==
    IF commentNorm # <<>> /\ containsSlur(commentNorm, blocklist)
    THEN "Your comment contains prohibited language."
    ELSE IF commentNorm # <<>> /\ containsLinkOrHandle(commentNorm)
    THEN "Please don't include links, emails, or social handles."
    ELSE NoErrorString

\* lines 257-301: from the call of POST to the insert into review_rate_limits
POST_Begin(q, b, h) ==
    LET body == BodyObject(b)
        driverId == Trim(StringOrEmpty(body.driverId))
        stars == Number(body.stars)
        commentRaw == body.comment
        tagIds == IF body.tagIds.t = "arr" THEN uniqStrings(body.tagIds.a) ELSE <<>>
        commentNorm == clampComment(normalize(commentRaw))
        safeComment == IF commentNorm # <<>> /\ leoProfanity_check(commentNorm)
                       THEN leoProfanity_clean(commentNorm) ELSE commentNorm
        finalComment == IF safeComment # <<>> THEN SqlText(safeComment) ELSE SqlNull
        ipHash == hashIp(env, getIp(h))
    IN  IF ~env.supabase
        THEN Respond([q EXCEPT !.threw = TRUE], 500, FALSE, "Missing Supabase env vars",
                     NoReview)
        ELSE IF ValidationError(driverId, stars) # NoErrorString
        THEN Respond(q, 400, FALSE, ValidationError(driverId, stars), NoReview)
        ELSE IF ModerationError(commentNorm, SLUR_BLOCKLIST(env.SLUR_BLOCKLIST)) # NoErrorString
        THEN Respond(q, 400, FALSE,
                     ModerationError(commentNorm, SLUR_BLOCKLIST(env.SLUR_BLOCKLIST)), NoReview)
        ELSE [q EXCEPT !.pc = "rl_insert", !.driverId = driverId, !.stars = stars,
                       !.comment = finalComment, !.tagIds = tagIds, !.ipHash = ipHash]

POST(r, b, h) ==
    /\ Arrives(r)
    /\ req' = [req EXCEPT ![r] =
                 POST_Begin([req[r] EXCEPT !.handler = "moderated", !.body = b,
                                           !.header = h, !.before = Answered], b, h)]
    /\ UNCHANGED <<env, dbVars, created, normVars>>

\* faulty variant: tests for foreign_key_violation instead of unique_violation
IsUniqueViolation_WrongCode(err) == err.code = "23503"

\* line 304: rlErr?.code === '23505'
IsUniqueViolation(err) == err.code = "23505"

\* faulty variant: the duplicate is not treated as "already reviewed"
AfterRateLimit_IgnoresConflict(q, rlErr) ==
    IF rlErr # NoError /\ ~IsUniqueViolation(rlErr)
    THEN Respond(q, 500, FALSE, rlErr.message, NoReview)
    ELSE [q EXCEPT !.pc = "review_insert"]

\* lines 303-309: what the handler does with the result of the rate-limit insert
AfterRateLimit(q, rlErr) ==
    IF IsUniqueViolation(rlErr)
    THEN Respond(q, 429, FALSE, "You already reviewed this driver from this network.", NoReview)
    ELSE IF rlErr # NoError
    THEN Respond(q, 500, FALSE, rlErr.message, NoReview)
    ELSE [q EXCEPT !.pc = "review_insert"]

\* lines 299-309: the database answers the insert into review_rate_limits
POST_RateLimit(r) ==
    /\ req[r].pc = "rl_insert"
    /\ req[r].handler = "moderated"
    /\ \E rlErr \in RateLimitInsertResults(req[r].driverId, req[r].ipHash) :
          /\ review_rate_limits' =
                IF rlErr = NoError
                THEN review_rate_limits \cup
                        {[driver_id |-> req[r].driverId, ip_hash |-> req[r].ipHash, by |-> r]}
                ELSE review_rate_limits
          /\ req' = [req EXCEPT ![r] = AfterRateLimit([req[r] EXCEPT !.rlErr = rlErr], rlErr)]
    /\ UNCHANGED <<env, reviews, review_tags, drivers, created, normVars>>

\* the row the database stores for insertRow, with the id it generates
NewReview(r) ==
    [id |-> Cardinality(reviews) + 1, driver_id |-> req[r].driverId, stars |-> req[r].stars,
     comment |-> req[r].comment, by |-> r]

\* faulty variant: the failed review insert is answered without an error string
AfterReview_Silent(q, reviewErr, review) ==
    IF reviewErr # NoError
    THEN Respond(q, 500, FALSE, NoErrorString, NoReview)
    ELSE IF Len(q.tagIds) > 0
    THEN [q EXCEPT !.pc = "tags_insert", !.review = review]
    ELSE Respond(q, 200, TRUE, NoErrorString, review)

\* lines 324-342: what the handler does with the result of the review insert
AfterReview(q, reviewErr, review) ==
    IF reviewErr # NoError
    THEN Respond(q, 500, FALSE, reviewErr.message, NoReview)
    ELSE IF Len(q.tagIds) > 0
    THEN [q EXCEPT !.pc = "tags_insert", !.review = review]
    ELSE Respond(q, 200, TRUE, NoErrorString, review)

\* lines 311-342: the database answers the insert into reviews
POST_Review(r) ==
    /\ req[r].pc = "review_insert"
    /\ req[r].handler = "moderated"
    /\ \E reviewErr \in InsertResults :
          /\ reviews' = IF reviewErr = NoError THEN reviews \cup {NewReview(r)} ELSE reviews
          /\ req' = [req EXCEPT ![r] =
                AfterReview([req[r] EXCEPT !.reviewErr = reviewErr], reviewErr, NewReview(r))]
    /\ UNCHANGED <<env, review_rate_limits, review_tags, drivers, created, normVars>>

\* faulty variant: a failed tag insert fails the request
AfterTags_Fails(q, tagsErr) ==
    IF tagsErr # NoError
    THEN Respond(q, 500, FALSE, tagsErr.message, NoReview)
    ELSE Respond(q, 200, TRUE, NoErrorString, q.review)

\* lines 336-342: a failed tag insert is logged (console.warn) and the review returned
AfterTags(q, tagsErr) == Respond(q, 200, TRUE, NoErrorString, q.review)

\* lines 331-342: the database answers the insert into review_tags
POST_Tags(r) ==
    /\ req[r].pc = "tags_insert"
    /\ req[r].handler = "moderated"
    /\ \E tagsErr \in InsertResults :
          /\ review_tags' =
                IF tagsErr = NoError
                THEN review_tags \cup
                        {[review_id |-> req[r].review.id, tag_id |-> req[r].tagIds[i]] :
                            i \in DOMAIN req[r].tagIds}
                ELSE review_tags
          /\ req' = [req EXCEPT ![r] = AfterTags([req[r] EXCEPT !.tagsErr = tagsErr], tagsErr)]
    /\ UNCHANGED <<env, review_rate_limits, reviews, drivers, created, normVars>>

(***************************************************************************)
(* route.ts lines 46-135: the earlier handler, which rolls the rate-limit  *)
(* row back when the review insert fails                                   *)
(***************************************************************************)
\* x || '': the JavaScript values that count as false
IsFalsy(v) ==
    \/ v.t \in {"undef", "null"}
    \/ v.t = "bool" /\ v.n = 0
    \/ v.t = "num" /\ v.n = 0
    \/ v.t = "str" /\ v.s = <<>>

\* String(v || '')
StringOrEmptyIfFalsy(v) == IF IsFalsy(v) THEN <<>> ELSE String(v)

\* lines 33-37: zero-width characters become spaces, then trim
Legacy_normalize(text) ==
    LET s == StringOrEmptyIfFalsy(text)
    IN  Trim(AsSeq([i \in DOMAIN s |-> IF IsZeroWidth(s[i]) THEN " " ELSE s[i]]))

\* lines 20-26
Legacy_getIp(h) ==
    IF h.xff.has /\ h.xff.s # <<>>
    THEN Trim(SplitComma(h.xff.s)[1])
    ELSE IF h.xrip.has /\ h.xrip.s # <<>> THEN Trim(h.xrip.s)
    ELSE <<"0",".","0",".","0",".","0">>

\* lines 28-31
Legacy_hashIp(e, ip) ==
    LET salt == IF e.IP_HASH_SALT # <<>> THEN e.IP_HASH_SALT
                ELSE <<"r","a","t","e","d","w","h","e","e","l","s","-","s","a","l","t">>
    IN  sha256(salt \o <<":">> \o ip)

\* bad-words (external library): Filter.clean overwrites listed words with '*'
BadWords_clean(s) ==
    LET t == ToLowerCase(s)
        hits == {<<i, w>> \in (DOMAIN s) \X LeoDictionary :
                    /\ i + Len(w) - 1 <= Len(t)
                    /\ \A j \in DOMAIN w : t[i + j - 1] = w[j]
                    /\ WordBoundary(t, i)
                    /\ WordBoundary(t, i + Len(w))}
    IN  AsSeq([i \in DOMAIN s |->
                 IF \E h \in hits : h[1] <= i /\ i < h[1] + Len(h[2]) THEN "*" ELSE s[i]])

\* lines 47-79; filterThrows: the dynamic import of bad-words or its clean() threw
Legacy_Begin(q, b, h, filterThrows) ==
    LET body == BodyObject(b)
        driverId == Trim(StringOrEmptyIfFalsy(body.driverId))
        stars == Number(body.stars)
        commentRaw == IF body.comment.t \in {"undef", "null"} THEN Str(<<>>) ELSE body.comment
        tagIds == IF body.tagIds.t = "arr" THEN body.tagIds.a ELSE <<>>
        comment == Legacy_normalize(commentRaw)
        safeComment == IF comment # <<>> THEN SqlText(BadWords_clean(comment)) ELSE SqlNull
        ipHash == Legacy_hashIp(env, Legacy_getIp(h))
    IN  IF ~env.supabase
        THEN Respond([q EXCEPT !.threw = TRUE], 500, FALSE,
                     "Missing NEXT_PUBLIC_SUPABASE_URL or SUPABASE_SERVICE_ROLE_KEY", NoReview)
        ELSE IF driverId = <<>>
        THEN Respond(q, 400, FALSE, "Missing driverId.", NoReview)
        ELSE IF ~IsFinite(stars) \/ LessThan(stars, 10) \/ GreaterThan(stars, 50)
        THEN Respond(q, 400, FALSE, "Stars must be between 1 and 5.", NoReview)
        ELSE IF filterThrows
        THEN Respond([q EXCEPT !.threw = TRUE], 500, FALSE, "Server error", NoReview)
        ELSE [q EXCEPT !.pc = "rl_insert", !.driverId = driverId, !.stars = stars,
                       !.comment = safeComment, !.tagIds = tagIds, !.ipHash = ipHash]

Legacy_POST(r, b, h) ==
    /\ Arrives(r)
    /\ \E filterThrows \in BOOLEAN :
          req' = [req EXCEPT ![r] =
                    Legacy_Begin([req[r] EXCEPT !.handler = "rollback", !.body = b,
                                                !.header = h, !.before = Answered],
                                 b, h, filterThrows)]
    /\ UNCHANGED <<env, dbVars, created, normVars>>

\* lines 77-90
Legacy_RateLimit(r) ==
    /\ req[r].pc = "rl_insert"
    /\ req[r].handler = "rollback"
    /\ \E rlErr \in RateLimitInsertResults(req[r].driverId, req[r].ipHash) :
          /\ review_rate_limits' =
                IF rlErr = NoError
                THEN review_rate_limits \cup
                        {[driver_id |-> req[r].driverId, ip_hash |-> req[r].ipHash, by |-> r]}
                ELSE review_rate_limits
          /\ req' = [req EXCEPT ![r] =
                LET q == [req[r] EXCEPT !.rlErr = rlErr]
                IN  IF rlErr # NoError /\ rlErr.code = "23505"
                    THEN Respond(q, 429, FALSE,
                                 "You already posted a review for this driver from this device/network.",
                                 NoReview)
                    ELSE IF rlErr # NoError
                    THEN Respond(q, 500, FALSE, rlErr.message, NoReview)
                    ELSE [q EXCEPT !.pc = "review_insert"]]
    /\ UNCHANGED <<env, reviews, review_tags, drivers, created, normVars>>

\* lines 93-104 and 114-131
Legacy_Review(r) ==
    /\ req[r].pc = "review_insert"
    /\ req[r].handler = "rollback"
    /\ \E reviewErr \in InsertResults :
          /\ reviews' = IF reviewErr = NoError THEN reviews \cup {NewReview(r)} ELSE reviews
          /\ req' = [req EXCEPT ![r] =
                LET q == [req[r] EXCEPT !.reviewErr = reviewErr]
                IN  IF reviewErr # NoError
                    THEN [q EXCEPT !.pc = "rollback"]
                    ELSE IF Len(req[r].tagIds) > 0
                    THEN [q EXCEPT !.pc = "tags_insert", !.review = NewReview(r)]
                    ELSE Respond(q, 200, TRUE, NoErrorString, NewReview(r))]
    /\ UNCHANGED <<env, review_rate_limits, review_tags, drivers, created, normVars>>

\* faulty variant: the delete matches on driver_id alone
Legacy_Rollback_WholeDriver(r) ==
    /\ req[r].pc = "rollback"
    /\ \E delErr \in InsertResults :
          /\ review_rate_limits' =
                IF delErr = NoError
                THEN {row \in review_rate_limits : row.driver_id # req[r].driverId}
                ELSE review_rate_limits
          /\ req' = [req EXCEPT ![r] =
                Respond([req[r] EXCEPT !.rolledBack = (delErr = NoError)], 500, FALSE,
                        req[r].reviewErr.message, NoReview)]
    /\ UNCHANGED <<env, reviews, review_tags, drivers, created, normVars>>

\* lines 104-112: delete().match({driver_id, ip_hash}); its result is not read
Legacy_Rollback(r) ==
    /\ req[r].pc = "rollback"
    /\ \E delErr \in InsertResults :
          /\ review_rate_limits' =
                IF delErr = NoError
                THEN {row \in review_rate_limits :
                        ~(row.driver_id = req[r].driverId /\ row.ip_hash = req[r].ipHash)}
                ELSE review_rate_limits
          /\ req' = [req EXCEPT ![r] =
                Respond([req[r] EXCEPT !.rolledBack = (delErr = NoError)], 500, FALSE,
                        req[r].reviewErr.message, NoReview)]
    /\ UNCHANGED <<env, reviews, review_tags, drivers, created, normVars>>

\* lines 114-131
Legacy_Tags(r) ==
    /\ req[r].pc = "tags_insert"
    /\ req[r].handler = "rollback"
    /\ \E rtErr \in InsertResults :
          /\ review_tags' =
                IF rtErr = NoError
                THEN review_tags \cup
                        {[review_id |-> req[r].review.id, tag_id |-> req[r].tagIds[i]] :
                            i \in DOMAIN req[r].tagIds}
                ELSE review_tags
          /\ req' = [req EXCEPT ![r] =
                LET q == Respond([req[r] EXCEPT !.tagsErr = rtErr], 200, TRUE, NoErrorString,
                                 req[r].review)
                IN  IF rtErr # NoError
                    THEN [q EXCEPT !.warning = "Review saved but tags failed: " \o rtErr.message]
                    ELSE q]
    /\ UNCHANGED <<env, review_rate_limits, reviews, drivers, created, normVars>>

(***************************************************************************)
(* Handle normalization: search page, SearchForm, CreateDriverForm         *)
(***************************************************************************)
\* [a-z0-9]
LowerAlnums == Lowers \cup Digits

\* [_\s]
UnderscoreOrSpace == {"_"} \cup Spaces

\* [\s_-]
Separators == Spaces \cup {"_", "-"}

AllOf(s, lo, hi, class) == \A i \in lo..hi : s[i] \in class

\* HANDLE_RE = /^[a-z0-9]{1,4}-[a-z]{2,24}$/ (.test)
HANDLE_RE(s) ==
    \E k \in 2..5 :
        /\ k <= Len(s)
        /\ s[k] = "-"
        /\ AllOf(s, 1, k - 1, LowerAlnums)
        /\ Len(s) - k >= 2
        /\ Len(s) - k <= 24
        /\ AllOf(s, k + 1, Len(s), Lowers)

\* faulty variant: the runs of dashes are collapsed before /[_\s]+/g -> '-'
normalizeQuery_CollapseFirst(raw) ==
    ReplaceRuns(ReplaceRuns(ToLowerCase(Trim(raw)), {"-"}, "-"), UnderscoreOrSpace, "-")

\* search/page.tsx: trim, toLowerCase, /[_\s]+/g -> '-', /-+/g -> '-'
normalizeQuery(raw) ==
    ReplaceRuns(ReplaceRuns(ToLowerCase(Trim(raw)), UnderscoreOrSpace, "-"), {"-"}, "-")

\* CreateDriverForm.tsx normalizeHandle: the same four steps
normalizeHandle(raw) ==
    ReplaceRuns(ReplaceRuns(ToLowerCase(Trim(raw)), UnderscoreOrSpace, "-"), {"-"}, "-")

\* /[^a-z0-9\s_-]/g -> ' '
BlankDisallowed(s) ==
    AsSeq([i \in DOMAIN s |-> IF s[i] \in LowerAlnums \cup Separators THEN s[i] ELSE " "])

\* SearchForm: trim, toLowerCase, disallowed -> ' ', /[_\s]+/g -> '-', /-+/g -> '-'
normalizeQueryToHandle(raw) ==
    ReplaceRuns(ReplaceRuns(BlankDisallowed(ToLowerCase(Trim(raw))), UnderscoreOrSpace, "-"),
                {"-"}, "-")

\* s matches /^(A{a1,a2})[\s_-]+(B{b1,b2})$/: the lengths <<la, lsep>> of the first
\* group and of the separator run, for each way to match
SplitMatches(s, classA, a1, a2, classB, b1, b2) ==
    {m \in (a1..a2) \X (1..Len(s)) :
        /\ m[1] + m[2] < Len(s)
        /\ AllOf(s, 1, m[1], classA)
        /\ AllOf(s, m[1] + 1, m[1] + m[2], Separators)
        /\ Len(s) - m[1] - m[2] >= b1
        /\ Len(s) - m[1] - m[2] <= b2
        /\ AllOf(s, m[1] + m[2] + 1, Len(s), classB)}

\* CreateDriverForm (part_008 lines 151-156): what the handle field shows while typing
formatHandleDisplayInput(nextRaw) ==
    LET v == CollapseSpace(nextRaw)
        fourDigits == Len(v) >= 5 /\ AllOf(v, 1, 4, Digits)
        v2 == IF fourDigits /\ IsLetter(v[5])
              THEN SubSeq(v, 1, 4) \o <<" ">> \o SubSeq(v, 5, Len(v))
              ELSE v
        run == {k \in 5..Len(v2) : AllOf(v2, 5, k, {"-", "_"})}
    IN  IF fourDigits /\ run # {}
        THEN LET last == CHOOSE k \in run : \A o \in run : o <= k
             IN  SubSeq(v2, 1, 4) \o <<" ">> \o SubSeq(v2, last + 1, Len(v2))
        ELSE v2

\* normalizeToHandle without the rule for a name followed by a plate
normalizeToHandle_PlateFirstOnly(raw) ==
    LET s == ToLowerCase(Trim(raw))
        cleaned == Trim(CollapseSpace(BlankDisallowed(s)))
        plateName == SplitMatches(cleaned, Digits, 1, 4, Lowers, 2, 24)
        glued == {k \in 1..4 : /\ Len(cleaned) - k >= 2
                               /\ Len(cleaned) - k <= 24
                               /\ AllOf(cleaned, 1, k, Digits)
                               /\ AllOf(cleaned, k + 1, Len(cleaned), Lowers)}
    IN  IF s = <<>> THEN <<>>
        ELSE IF HANDLE_RE(cleaned) THEN cleaned
        ELSE IF plateName # {}
        THEN LET m == CHOOSE m \in plateName : TRUE
             IN  SubSeq(cleaned, 1, m[1]) \o <<"-">>
                    \o SubSeq(cleaned, m[1] + m[2] + 1, Len(cleaned))
        ELSE IF glued # {}
        THEN LET k == CHOOSE k \in glued : TRUE
             IN  SubSeq(cleaned, 1, k) \o <<"-">> \o SubSeq(cleaned, k + 1, Len(cleaned))
        ELSE ReplaceRuns(ReplaceRuns(cleaned, UnderscoreOrSpace, "-"), {"-"}, "-")

\* CreateDriverForm (part_008 lines 169-186)
normalizeToHandle(raw) ==
    LET s == ToLowerCase(Trim(raw))
        cleaned == Trim(CollapseSpace(BlankDisallowed(s)))
        plateName == SplitMatches(cleaned, Digits, 1, 4, Lowers, 2, 24)
        namePlate == SplitMatches(cleaned, Lowers, 2, 24, Digits, 1, 4)
        glued == {k \in 1..4 : /\ Len(cleaned) - k >= 2
                               /\ Len(cleaned) - k <= 24
                               /\ AllOf(cleaned, 1, k, Digits)
                               /\ AllOf(cleaned, k + 1, Len(cleaned), Lowers)}
    IN  IF s = <<>> THEN <<>>
        ELSE IF HANDLE_RE(cleaned) THEN cleaned
        ELSE IF plateName # {}
        THEN LET m == CHOOSE m \in plateName : TRUE
             IN  SubSeq(cleaned, 1, m[1]) \o <<"-">>
                    \o SubSeq(cleaned, m[1] + m[2] + 1, Len(cleaned))
        ELSE IF namePlate # {}
        THEN LET m == CHOOSE m \in namePlate : TRUE
             IN  SubSeq(cleaned, m[1] + m[2] + 1, Len(cleaned)) \o <<"-">>
                    \o SubSeq(cleaned, 1, m[1])
        ELSE IF glued # {}
        THEN LET k == CHOOSE k \in glued : TRUE
             IN  SubSeq(cleaned, 1, k) \o <<"-">> \o SubSeq(cleaned, k + 1, Len(cleaned))
        ELSE ReplaceRuns(ReplaceRuns(cleaned, UnderscoreOrSpace, "-"), {"-"}, "-")

\* a caller hands the string x to one of the three normalizers
Normalize_Call(x) ==
    /\ hstep = "input"
    /\ \E fn \in {"normalizeQuery", "normalizeQueryToHandle", "normalizeToHandle"} :
          hq' = [fn |-> fn, input |-> x,
                 out |-> CASE fn = "normalizeQuery" -> normalizeQuery(x)
                           [] fn = "normalizeQueryToHandle" -> normalizeQueryToHandle(x)
                           [] fn = "normalizeToHandle" -> normalizeToHandle(x)]
    /\ hstep' = "once"
    /\ UNCHANGED <<env, dbVars, req, created, uiVars>>

\* the result is handed to the same normalizer again
Normalize_Again ==
    /\ hstep = "once"
    /\ hq' = [fn |-> hq.fn, input |-> hq.out,
              out |-> CASE hq.fn = "normalizeQuery" -> normalizeQuery(hq.out)
                        [] hq.fn = "normalizeQueryToHandle" -> normalizeQueryToHandle(hq.out)
                        [] hq.fn = "normalizeToHandle" -> normalizeToHandle(hq.out)]
    /\ hstep' = "twice"
    /\ UNCHANGED <<env, dbVars, req, created, uiVars>>

\* part_008 lines 687 and 281: the handle field changes to value; the field shows
\* formatHandleDisplayInput(value) and the handle is normalizeToHandle of what it shows
Handle_Change(value) ==
    /\ hstep = "input"
    /\ hq' = [fn |-> "normalizeToHandle", input |-> formatHandleDisplayInput(value),
              out |-> normalizeToHandle(formatHandleDisplayInput(value))]
    /\ hstep' = "once"
    /\ UNCHANGED <<env, dbVars, req, created, uiVars>>

(***************************************************************************)
(* CreateDriverForm.tsx lines 2102-2128: createDriver                      *)
(***************************************************************************)
\* titleCaseName of a name without separators: first letter in upper case
titleCaseName(name) ==
    IF Trim(name) = <<>> THEN <<>>
    ELSE <<ToUpperChar(Trim(name)[1])>> \o SubSeq(Trim(name), 2, Len(Trim(name)))

displayNameFromHandle(handle) ==
    IF ~HANDLE_RE(handle) THEN handle
    ELSE LET k == CHOOSE k \in DOMAIN handle : handle[k] = "-"
         IN  titleCaseName(SubSeq(handle, k + 1, Len(handle)))
                \o <<" ", "(">> \o SubSeq(handle, 1, k - 1) \o <<")">>

\* what the database answers to insert into drivers (driver_handle is unique)
DriverInsertResults(handle) ==
    IF \E row \in drivers : row.driver_handle = handle
    THEN {UniqueViolation, StatementFailure}
    ELSE {NoError, StatementFailure}

SqlTextOrNull(s) == IF Trim(s) = <<>> THEN SqlNull ELSE SqlText(Trim(s))

\* f is the form when createDriver runs: handleInput, state, cityToSave and the car fields
createDriver(f) ==
    LET handle == normalizeHandle(f.handleInput)
        statePicked == Len(Trim(f.state)) = 2
        handleValid == HANDLE_RE(handle)
    IN  /\ IF ~statePicked
           THEN /\ created' = [ok |-> FALSE, error |-> "Please select a state."]
                /\ UNCHANGED drivers
           ELSE IF ~handleValid
           THEN /\ created' = [ok |-> FALSE, error |-> "Driver handle format is invalid. Use: last 4 digits + first name (example: 8841-mike)."]
                /\ UNCHANGED drivers
           ELSE \E insertErr \in DriverInsertResults(handle) :
                  /\ drivers' =
                        IF insertErr = NoError
                        THEN drivers \cup
                               {[id |-> Cardinality(drivers) + 1, driver_handle |-> handle,
                                 display_name |-> displayNameFromHandle(handle),
                                 city |-> f.cityToSave, state |-> f.state,
                                 car_make |-> SqlTextOrNull(f.carMake),
                                 car_model |-> SqlTextOrNull(f.carModel),
                                 car_color |-> SqlTextOrNull(f.carColor)]}
                        ELSE drivers
                  /\ created' = IF insertErr = NoError
                                THEN [ok |-> TRUE, error |-> NoErrorString]
                                ELSE [ok |-> FALSE, error |-> insertErr.message]
        /\ UNCHANGED <<env, review_rate_limits, reviews, review_tags, req, normVars>>

\* the form when createDriver runs, with nothing entered
NoForm ==
    [handleInput |-> <<>>, state |-> <<>>, cityToSave |-> SqlNull,
     carMake |-> <<>>, carModel |-> <<>>, carColor |-> <<>>]

(***************************************************************************)
(* CreateDriverForm: the submit handlers, in the version with the city     *)
(* gate (CreateDriverForm.tsx lines 2084-2196) and in the version without  *)
(* (part_008 lines 535-616)                                                *)
(***************************************************************************)
NullError == "<null>"

\* the debounce timer of the city effect: the id and the arguments its fetch will use
NoTimer == [id |-> 0, p_state |-> <<>>, p_query |-> <<>>]

NoResponse == [id |-> 0, applied |-> FALSE]

\* CreateDriverForm.tsx lines 1526-1544, SearchForm.tsx lines 149-157: the state of the
\* city autocomplete next to the fields: cityOpen, cityLoading, the refs
\* suppressCityOpenRef (set by the mount effect of lines 1541-1546) and cityFetchId,
\* the pending timer, the city_suggestions calls that have not answered, whether the
\* city field has the focus; issued: the id of the last call made; suggestionsFor:
\* the p_state of the response citySuggestions was set from; last: the response
\* that has just arrived
NoCity ==
    [component |-> "CreateDriverForm", cityOpen |-> FALSE, cityLoading |-> FALSE,
     suppressCityOpen |-> TRUE, cityFetchId |-> 0, timer |-> NoTimer, rpcs |-> {},
     focused |-> FALSE, issued |-> 0, suggestionsFor |-> <<>>, last |-> NoResponse]

SelectStateError == "Please select a state."

HandleFormatError == "Driver handle format is invalid. Use: last 4 digits + first name (example: 8841-mike)."

ShortenCommentError == "Please shorten your comment to 500 characters or less to submit."

ReviewFailedError == "Driver created, but review failed to post."

NoFields ==
    [handleInput |-> <<>>, state |-> <<>>, cityInput |-> <<>>, cityNotListed |-> FALSE,
     citySuggestions |-> {}, cityDecision |-> "null", carMake |-> <<>>,
     carModel |-> <<>>, carColor |-> <<>>, commentCount |-> 0]

NoSubmit ==
    [submitted |-> FALSE, kind |-> "", handleValid |-> FALSE, statePicked |-> FALSE,
     wasLoading |-> FALSE, insert |-> FALSE]

\* fields: what the user has entered; loading, error: the state of that name; pc: what
\* the submission in progress waits for; sent: the row it asked to insert; last: the
\* submit event that has just been handled
NoFormState(version) ==
    [version |-> version, fields |-> NoFields, loading |-> FALSE, error |-> NullError,
     pc |-> "idle", kind |-> "", sent |-> NoForm, driverId |-> 0,
     cityTouched |-> FALSE, submitAttempted |-> FALSE, last |-> NoSubmit]

Form_handle(f) ==
    IF f.version = "part_008" THEN normalizeToHandle(f.fields.handleInput)
    ELSE normalizeHandle(f.fields.handleInput)

Form_handleValid(f) == HANDLE_RE(Form_handle(f))

Form_statePicked(f) == Len(Trim(f.fields.state)) = 2

Form_overLimit(f) == f.fields.commentCount > MAX_COMMENT_CHARS

\* CreateDriverForm.tsx lines 1588-1592
Form_cityLooksValid(f) ==
    LET normalizedCityInput == ToLowerCase(Trim(f.fields.cityInput))
    IN  \/ normalizedCityInput = <<>>
        \/ f.fields.cityNotListed
        \/ \E c \in f.fields.citySuggestions : ToLowerCase(Trim(c)) = normalizedCityInput

\* CreateDriverForm.tsx lines 2084-2100; part_008 has no city field
cityGatePasses(f) ==
    \/ f.version = "part_008"
    \/ ~Form_statePicked(f)
    \/ f.fields.cityNotListed
    \/ Trim(f.fields.cityInput) = <<>>
    \/ Form_cityLooksValid(f)
    \/ f.fields.cityDecision = "enter_anyway"

\* CreateDriverForm.tsx lines 2108-2110
Form_cityToSave(f) ==
    LET typed == Trim(f.fields.cityInput)
    IN  IF f.fields.cityNotListed \/ typed = <<>> THEN SqlNull
        ELSE IF f.fields.cityDecision = "enter_anyway" \/ Form_cityLooksValid(f)
        THEN SqlText(typed)
        ELSE SqlNull

\* the checks of createDriver that look at the state only
createDriver_Throws_StateOnly(f) ==
    IF ~Form_statePicked(f) THEN SelectStateError ELSE NullError

\* the error createDriver throws before it calls the database, or NullError
\* (CreateDriverForm.tsx lines 2103-2106, part_008 lines 536-542)
createDriver_Throws(f) ==
    IF ~Form_statePicked(f) THEN SelectStateError
    ELSE IF ~Form_handleValid(f) THEN HandleFormatError
    ELSE NullError

\* the row createDriver asks the database to insert
createDriver_Row(f) ==
    IF f.version = "part_008"
    THEN [NoForm EXCEPT !.handleInput = Form_handle(f), !.state = f.fields.state,
                        !.carMake = f.fields.carMake]
    ELSE [NoForm EXCEPT !.handleInput = Form_handle(f), !.state = f.fields.state,
                        !.cityToSave = Form_cityToSave(f),
                        !.carMake = f.fields.carMake, !.carModel = f.fields.carModel,
                        !.carColor = f.fields.carColor]

\* the handler from setLoading(true) to its first await that leaves the event loop:
\* createDriver throws, or the insert is sent
Form_Submit(f, kind) ==
    LET thrown == createDriver_Throws(f)
        g == [f EXCEPT !.last = [submitted |-> TRUE, kind |-> kind,
                                 handleValid |-> Form_handleValid(f),
                                 statePicked |-> Form_statePicked(f),
                                 wasLoading |-> f.loading, insert |-> FALSE]]
    IN  IF f.loading THEN g
        ELSE IF kind = "review" /\ Form_overLimit(f)
        THEN [g EXCEPT !.error = ShortenCommentError]
        ELSE IF ~cityGatePasses(f)
        THEN [g EXCEPT !.cityTouched = TRUE, !.submitAttempted = TRUE]
        ELSE IF thrown # NullError
        THEN [g EXCEPT !.error = thrown, !.loading = FALSE]
        ELSE [g EXCEPT !.error = NullError, !.loading = TRUE, !.pc = "insert",
                       !.kind = kind, !.sent = createDriver_Row(f), !.last.insert = TRUE]

\* CreateDriverForm.tsx lines 2094-2098: cityGatePasses, when it stops the submit,
\* sets suppressCityOpenRef and closes the list; when that changes cityOpen the effect
\* of lines 1847-1919 runs again: its cleanup cancels the pending timer and, the
\* list being closed and suppressed, it returns at line 1865
Form_CityAfterSubmit(f, kind, c) ==
    IF ~f.loading /\ ~(kind = "review" /\ Form_overLimit(f)) /\ ~cityGatePasses(f)
    THEN [c EXCEPT !.suppressCityOpen = TRUE, !.cityOpen = FALSE,
                   !.timer = IF c.cityOpen THEN NoTimer ELSE @, !.last = NoResponse]
    ELSE c

\* the user changes the fields of the form
Form_Edit(fields) ==
    /\ form' = [form EXCEPT !.fields = fields, !.last = NoSubmit]
    /\ UNCHANGED <<env, dbVars, req, created, hq, hstep, search, rf, city>>

\* CreateDriverForm.tsx lines 2130-2147, part_008 lines 571-587: "Create driver only"
onCreateOnly ==
    /\ form' = Form_Submit(form, "only")
    /\ city' = Form_CityAfterSubmit(form, "only", city)
    /\ UNCHANGED <<env, dbVars, req, created, hq, hstep, search, rf>>

\* CreateDriverForm.tsx lines 2149-2196, part_008 lines 589-616: the form is submitted
onCreateAndReview ==
    /\ form' = Form_Submit(form, "review")
    /\ city' = Form_CityAfterSubmit(form, "review", city)
    /\ UNCHANGED <<env, dbVars, req, created, hq, hstep, search, rf>>

\* part_008 lines 555-556
IsDuplicateMessage(err) == err = UniqueViolation

\* the insert into drivers answers: createDriver returns the row or throws, and the
\* handler goes on to router.push, to the POST of the review, or to its catch block
Form_InsertReturns ==
    /\ form.pc = "insert"
    /\ \E insertErr \in DriverInsertResults(form.sent.handleInput) :
         LET id == Cardinality(drivers) + 1
         IN  /\ drivers' =
                   IF insertErr = NoError
                   THEN drivers \cup
                          {[id |-> id, driver_handle |-> form.sent.handleInput,
                            display_name |-> displayNameFromHandle(form.sent.handleInput),
                            city |-> form.sent.cityToSave, state |-> form.sent.state,
                            car_make |-> SqlTextOrNull(form.sent.carMake),
                            car_model |-> SqlTextOrNull(form.sent.carModel),
                            car_color |-> SqlTextOrNull(form.sent.carColor)]}
                   ELSE drivers
             /\ form' =
                   IF insertErr = NoError
                   THEN IF form.kind = "only"
                        THEN [form EXCEPT !.pc = "idle", !.loading = FALSE,
                                          !.driverId = id, !.last = NoSubmit]
                        ELSE [form EXCEPT !.pc = "post", !.driverId = id,
                                          !.last = NoSubmit]
                   ELSE IF form.version = "part_008" /\ IsDuplicateMessage(insertErr)
                   THEN [form EXCEPT !.pc = "select", !.last = NoSubmit]
                   ELSE [form EXCEPT !.pc = "idle", !.loading = FALSE,
                                     !.error = insertErr.message, !.last = NoSubmit]
    /\ UNCHANGED <<env, review_rate_limits, reviews, review_tags, req, created, hq,
                   hstep, search, rf, city>>

\* part_008 lines 557-565: after a duplicate, the select of the existing driver
\* answers; its error is not read
Form_SelectReturns ==
    /\ form.pc = "select"
    /\ \E failed \in BOOLEAN :
         LET found == {row \in drivers : row.driver_handle = form.sent.handleInput}
             existing == IF failed \/ found = {} THEN 0
                         ELSE (CHOOSE row \in found : TRUE).id
         IN  form' =
                IF existing = 0
                THEN [form EXCEPT !.pc = "idle", !.loading = FALSE,
                                  !.error = UniqueViolation.message, !.last = NoSubmit]
                ELSE IF form.kind = "only"
                THEN [form EXCEPT !.pc = "idle", !.loading = FALSE,
                                  !.driverId = existing, !.last = NoSubmit]
                ELSE [form EXCEPT !.pc = "post", !.driverId = existing,
                                  !.last = NoSubmit]
    /\ UNCHANGED <<env, dbVars, req, created, hq, hstep, search, rf, city>>

\* Form_PostReturns without the finally block: only the branch of a response that is
\* not ok clears loading
Form_PostReturns_NoFinally ==
    /\ form.pc = "post"
    /\ \E answer \in {"ok", "api error", "no message", "threw"} :
         form' = [form EXCEPT !.pc = "idle", !.last = NoSubmit,
                              !.loading = answer \in {"ok", "threw"},
                              !.error =
                                  CASE answer = "ok" -> form.error
                                    [] answer = "api error" -> "Too many requests"
                                    [] answer = "no message" -> ReviewFailedError
                                    [] answer = "threw" ->
                                          "Failed to create driver and post review."]
    /\ UNCHANGED <<env, dbVars, req, created, hq, hstep, search, rf, city>>

\* CreateDriverForm.tsx lines 2166-2195, part_008 lines 603-633: POST /api/reviews
\* answers (or fetch fails): res.ok, an error of the API, or a throw
Form_PostReturns ==
    /\ form.pc = "post"
    /\ \E answer \in {"ok", "api error", "no message", "threw"} :
         form' = [form EXCEPT !.pc = "idle", !.loading = FALSE, !.last = NoSubmit,
                              !.error =
                                  CASE answer = "ok" -> form.error
                                    [] answer = "api error" -> "Too many requests"
                                    [] answer = "no message" -> ReviewFailedError
                                    [] answer = "threw" ->
                                          "Failed to create driver and post review."]
    /\ UNCHANGED <<env, dbVars, req, created, hq, hstep, search, rf, city>>

(***************************************************************************)
(* ReviewForm.tsx: the review form of a driver page                        *)
(***************************************************************************)
\* Every event handler reads the state of the latest render: React renders the state
\* a handler of a click or key event has set before the next event is dispatched.
MaxPosts == 3

PostFailedError == "Failed to post review."

NoEvent == [event |-> "", whileLoading |-> FALSE, issued |-> FALSE]

\* lines 146-154: the state of the form; posts: the bodies of the POST /api/reviews
\* requests that have not been answered; last: the submit event just handled
NoReviewForm ==
    [stars |-> 5, commentCount |-> 0, selectedTagIds |-> {}, loading |-> FALSE,
     error |-> NullError, toast |-> NullError, posts |-> <<>>, last |-> NoEvent]

\* lines 157-158
ReviewForm_overLimit(f) == f.commentCount > MAX_COMMENT_CHARS

\* onSubmit without setLoading(true): the form never enters the loading state
onSubmit_NeverLoading(f) ==
    IF f.loading THEN f
    ELSE IF ReviewForm_overLimit(f) THEN [f EXCEPT !.error = ShortenCommentError]
    ELSE [f EXCEPT !.error = NullError,
                   !.posts = Append(f.posts, [stars |-> f.stars,
                                              commentCount |-> f.commentCount,
                                              tagIds |-> f.selectedTagIds])]

\* lines 239-258: onSubmit up to the fetch
onSubmit(f) ==
    IF f.loading THEN f
    ELSE IF ReviewForm_overLimit(f) THEN [f EXCEPT !.error = ShortenCommentError]
    ELSE [f EXCEPT !.loading = TRUE, !.error = NullError,
                   !.posts = Append(f.posts, [stars |-> f.stars,
                                              commentCount |-> f.commentCount,
                                              tagIds |-> f.selectedTagIds])]

\* lines 394-397: the submit button is disabled while loading or over the limit; a
\* click on a disabled button, by the user or by click(), submits nothing
ReviewForm_Click(f, event) ==
    LET g == IF f.loading \/ ReviewForm_overLimit(f) THEN f ELSE onSubmit(f)
    IN  [g EXCEPT !.last = [event |-> event, whileLoading |-> Len(f.posts) > 0,
                            issued |-> Len(g.posts) > Len(f.posts)]]

\* the user clicks "Post review"
ReviewForm_ButtonClick ==
    /\ Len(rf.posts) < MaxPosts
    /\ rf' = ReviewForm_Click(rf, "click")
    /\ UNCHANGED <<env, dbVars, req, created, hq, hstep, search, form, city>>

\* lines 351-359: Cmd/Ctrl+Enter in the comment field, which is disabled while
\* loading, clicks the submit button
ReviewForm_CmdEnter ==
    /\ Len(rf.posts) < MaxPosts
    /\ rf' = IF rf.loading
             THEN [rf EXCEPT !.last = [event |-> "cmd+enter",
                                       whileLoading |-> Len(rf.posts) > 0,
                                       issued |-> FALSE]]
             ELSE ReviewForm_Click(rf, "cmd+enter")
    /\ UNCHANGED <<env, dbVars, req, created, hq, hstep, search, form, city>>

\* lines 308-322 and 341-362: the rating and the comment change (both fields are
\* disabled while loading); a comment back within the limit clears the error about
\* its length
ReviewForm_Edit(stars, commentCount) ==
    /\ ~rf.loading
    /\ rf' = [rf EXCEPT !.stars = stars, !.commentCount = commentCount,
                        !.error = IF commentCount <= MAX_COMMENT_CHARS
                                     /\ rf.error = ShortenCommentError
                                  THEN NullError ELSE rf.error,
                        !.last = NoEvent]
    /\ UNCHANGED <<env, dbVars, req, created, hq, hstep, search, form, city>>

\* lines 229-236: a tag chip is toggled
toggleTag(id) ==
    /\ rf' = [rf EXCEPT !.selectedTagIds = IF id \in rf.selectedTagIds
                                           THEN rf.selectedTagIds \ {id}
                                           ELSE rf.selectedTagIds \cup {id},
                        !.last = NoEvent]
    /\ UNCHANGED <<env, dbVars, req, created, hq, hstep, search, form, city>>

\* line 306: a submit event reaches the form without a click on the button
\* (form.requestSubmit()); onSubmit guards itself
ReviewForm_SubmitEvent ==
    /\ Len(rf.posts) < MaxPosts
    /\ rf' = [onSubmit(rf) EXCEPT !.last = [event |-> "submit",
                                            whileLoading |-> Len(rf.posts) > 0,
                                            issued |-> Len(onSubmit(rf).posts) > Len(rf.posts)]]
    /\ UNCHANGED <<env, dbVars, req, created, hq, hstep, search, form, city>>

ReviewForm_Answers == {"ok", "ok, storage threw", "api error", "no message", "threw"}

AnswerEvent(answer) == [event |-> answer, whileLoading |-> TRUE, issued |-> FALSE]

\* ReviewForm_Answered with the reset of the form moved in front of the test of res.ok
ReviewForm_Answered_AlwaysResets ==
    /\ rf.posts # <<>>
    /\ \E answer \in ReviewForm_Answers :
         LET reset == [rf EXCEPT !.posts = Tail(rf.posts), !.commentCount = 0, !.stars = 5,
                                 !.selectedTagIds = {}, !.loading = FALSE,
                                 !.last = AnswerEvent(answer)]
         IN  rf' = CASE answer = "ok" -> [reset EXCEPT !.toast = "Review posted!"]
                     [] answer = "ok, storage threw" ->
                           [reset EXCEPT !.toast = "Review posted!",
                                         !.error = "QuotaExceededError"]
                     [] answer = "api error" ->
                           [reset EXCEPT !.error =
                               "You already reviewed this driver from this network."]
                     [] OTHER -> [reset EXCEPT !.error = PostFailedError]
    /\ UNCHANGED <<env, dbVars, req, created, hq, hstep, search, form, city>>

\* lines 260-293: the oldest POST is answered: res.ok (and sessionStorage.setItem of
\* line 281 returns or throws into the catch of line 290), an error of the API with
\* or without a message, or fetch throws
ReviewForm_Answered ==
    /\ rf.posts # <<>>
    /\ \E answer \in ReviewForm_Answers :
         LET reset == [rf EXCEPT !.posts = Tail(rf.posts), !.commentCount = 0, !.stars = 5,
                                 !.selectedTagIds = {}, !.toast = "Review posted!",
                                 !.loading = FALSE, !.last = AnswerEvent(answer)]
             kept == [rf EXCEPT !.posts = Tail(rf.posts), !.loading = FALSE,
                                !.last = AnswerEvent(answer)]
         IN  rf' = CASE answer = "ok" -> reset
                     [] answer = "ok, storage threw" ->
                           [reset EXCEPT !.error = "QuotaExceededError"]
                     [] answer = "api error" ->
                           [kept EXCEPT !.error =
                               "You already reviewed this driver from this network."]
                     [] OTHER -> [kept EXCEPT !.error = PostFailedError]
    /\ UNCHANGED <<env, dbVars, req, created, hq, hstep, search, form, city>>

(***************************************************************************)
(* search/page.tsx: the search page                                        *)
(***************************************************************************)
ToUpperCase(s) == AsSeq([i \in DOMAIN s |-> ToUpperChar(s[i])])

\* line 57: /^(\d{4})(?:-([a-z]{1,24}))?$/
PLATE_LEADING_RE(s) ==
    /\ Len(s) >= 4
    /\ AllOf(s, 1, 4, Digits)
    /\ \/ Len(s) = 4
       \/ /\ Len(s) >= 6
          /\ Len(s) <= 29
          /\ s[5] = "-"
          /\ AllOf(s, 6, Len(s), Lowers)

NoPlate == [matched |-> FALSE, plate |-> <<>>, namePrefix |-> <<>>]

\* lines 68-72; the result null is NoPlate
parsePlateLeading(norm) ==
    IF ~PLATE_LEADING_RE(norm) THEN NoPlate
    ELSE [matched |-> TRUE, plate |-> SubSeq(norm, 1, 4),
          namePrefix |-> Trim(SubSeq(norm, 6, Len(norm)))]

\* the characters the pattern language of ILIKE gives a meaning to
IlikeSpecials == {"%", "_", "\\"}

\* the pattern built from the input as it is, %, _ and backslash left in place
escapeIlikeLiteral_None(s) == s

RECURSIVE escapeIlikeLiteral(_)
\* lines 74-77: a backslash before every %, _ and backslash
escapeIlikeLiteral(s) ==
    IF s = <<>> THEN <<>>
    ELSE (IF Head(s) \in IlikeSpecials THEN <<"\\", Head(s)>> ELSE <<Head(s)>>)
            \o escapeIlikeLiteral(Tail(s))

safePrefixIlike(q) == escapeIlikeLiteral(q) \o <<"%">>

\* lines 87-89
hasAnyDisambiguator(state, car_make) == Trim(state) # <<>> \/ Trim(car_make) # <<>>

buildContainsIlike(v) == <<"%">> \o escapeIlikeLiteral(Trim(v)) \o <<"%">>

RECURSIVE IlikeFrom(_, _, _, _)
\* PostgreSQL s ILIKE p from the positions i of s and j of p: backslash takes the next
\* character literally, % is any run of characters, _ is any one character, letters
\* compare without case
IlikeFrom(s, i, p, j) ==
    IF j > Len(p) THEN i > Len(s)
    ELSE IF p[j] = "\\" /\ j < Len(p)
    THEN /\ i <= Len(s)
         /\ ToLowerChar(s[i]) = ToLowerChar(p[j + 1])
         /\ IlikeFrom(s, i + 1, p, j + 2)
    ELSE IF p[j] = "%"
    THEN \E k \in i..(Len(s) + 1) : IlikeFrom(s, k, p, j + 1)
    ELSE IF p[j] = "_"
    THEN i <= Len(s) /\ IlikeFrom(s, i + 1, p, j + 1)
    ELSE /\ i <= Len(s)
         /\ ToLowerChar(s[i]) = ToLowerChar(p[j])
         /\ IlikeFrom(s, i + 1, p, j + 1)

Ilike(s, p) == IlikeFrom(s, 1, p, 1)

\* the columns the page selects from drivers
DriverRow(row) ==
    [id |-> row.id, driver_handle |-> row.driver_handle, display_name |-> row.display_name,
     state |-> row.state, car_make |-> row.car_make]

NoDriver ==
    [id |-> 0, driver_handle |-> <<>>, display_name |-> <<>>, state |-> <<>>,
     car_make |-> SqlNull]

NoHelper == "<null>"

GuidanceHelper == "Search using the last 4 digits + first name (example: 8841-mike)."

PlateOnlyHelper == "That's only the plate. Add a first-name letter (example: 2222-t) or add a detail (state / car make) to narrow."

NoSearch ==
    [pc |-> "idle", rawQ |-> <<>>, q |-> <<>>, initialState |-> <<>>,
     initialCarMake |-> <<>>, driver |-> NoDriver, suggestions |-> <<>>,
     helperMessage |-> NoHelper, showCreateDriver |-> FALSE,
     exactLookup |-> FALSE, exactError |-> FALSE,
     prefixSearch |-> FALSE, pattern |-> <<>>, sErr |-> FALSE]

SUGGESTION_LIMIT == 25

DISPLAY_LIMIT == 20

\* the rows of a set in the order of their ids, ascending
RECURSIVE ById(_)
ById(rows) ==
    IF rows = {} THEN <<>>
    ELSE LET first == CHOOSE r \in rows : \A o \in rows : r.id <= o.id
         IN  <<first>> \o ById(rows \ {first})

Reverse(s) == [i \in DOMAIN s |-> s[Len(s) + 1 - i]]

RECURSIVE Choices(_, _)
\* the subsets of rows with n elements
Choices(rows, n) ==
    IF n = 0 THEN {{}}
    ELSE IF Cardinality(rows) < n THEN {}
    ELSE LET r == CHOOSE r \in rows : \A o \in rows : r.id <= o.id
         IN  {c \cup {r} : c \in Choices(rows \ {r}, n - 1)} \cup Choices(rows \ {r}, n)

\* what select ... limit n may return of the matching rows: without ORDER BY, any n of
\* them, in the order the scan meets them
Limit(rows, n) ==
    LET kept == IF Cardinality(rows) <= n THEN {rows}
                ELSE {rows \ dropped : dropped \in Choices(rows, Cardinality(rows) - n)}
    IN  {ById(k) : k \in kept} \cup {AsSeq(Reverse(ById(k))) : k \in kept}

\* lines 186-221, "NOT FOUND => DECIDE NEXT" up to the prefix query: s is the run with
\* driver still null
Search_Decide_AlwaysSuggest(s) ==
    IF ~PLATE_LEADING_RE(s.q)
    THEN [s EXCEPT !.pc = "done", !.helperMessage = GuidanceHelper,
                   !.showCreateDriver = FALSE]
    ELSE LET parsed == parsePlateLeading(s.q)
             prefix == IF parsed.namePrefix # <<>>
                       THEN parsed.plate \o <<"-">> \o parsed.namePrefix
                       ELSE parsed.plate \o <<"-">>
         IN  [s EXCEPT !.pc = "prefix", !.pattern = safePrefixIlike(prefix)]

\* the decision that offers the create form for a query that is not plate-leading too
Search_Decide_OffersCreate(s) ==
    IF ~PLATE_LEADING_RE(s.q)
    THEN [s EXCEPT !.pc = "done", !.helperMessage = GuidanceHelper,
                   !.showCreateDriver = TRUE]
    ELSE Search_Decide_AlwaysSuggest(
            [s EXCEPT !.showCreateDriver = TRUE,
                      !.helperMessage =
                          IF s.q = parsePlateLeading(s.q).plate
                             /\ ~hasAnyDisambiguator(s.initialState, s.initialCarMake)
                          THEN PlateOnlyHelper ELSE NoHelper])

Search_Decide(s) ==
    IF ~PLATE_LEADING_RE(s.q)
    THEN [s EXCEPT !.pc = "done", !.helperMessage = GuidanceHelper,
                   !.showCreateDriver = FALSE]
    ELSE LET parsed == parsePlateLeading(s.q)
             typedOnlyPlate == s.q = parsed.plate
             disambiguatorPresent == hasAnyDisambiguator(s.initialState, s.initialCarMake)
             prefix == IF parsed.namePrefix # <<>>
                       THEN parsed.plate \o <<"-">> \o parsed.namePrefix
                       ELSE parsed.plate \o <<"-">>
         IN  IF typedOnlyPlate /\ ~disambiguatorPresent
             THEN [s EXCEPT !.pc = "done", !.helperMessage = PlateOnlyHelper,
                            !.showCreateDriver = TRUE]
             ELSE [s EXCEPT !.pc = "prefix", !.pattern = safePrefixIlike(prefix)]

\* lines 96-170: the page is requested with the parameters sp; it runs up to its first
\* query
Search_Begin(sp) ==
    /\ search.pc = "idle"
    /\ LET rawQ == Trim(StringOrEmpty(sp.q))
           s == [NoSearch EXCEPT !.rawQ = rawQ, !.q = normalizeQuery(rawQ),
                    !.initialState = ToUpperCase(Trim(StringOrEmpty(sp.state))),
                    !.initialCarMake = Trim(StringOrEmpty(sp.car_make))]
       IN  search' = IF s.q = <<>> THEN [s EXCEPT !.pc = "done"]
                     ELSE IF HANDLE_RE(s.q) THEN [s EXCEPT !.pc = "exact"]
                     ELSE Search_Decide(s)
    /\ UNCHANGED <<env, dbVars, req, created, hq, hstep, form, rf, city>>

\* the exact lookup whose result does not stop the page from deciding what to suggest
Search_Exact_AlwaysDecide ==
    /\ search.pc = "exact"
    /\ \E error \in BOOLEAN :
         LET found == {row \in drivers : row.driver_handle = search.q}
             d == IF found = {} THEN NoDriver ELSE DriverRow(CHOOSE row \in found : TRUE)
             s == [search EXCEPT !.exactLookup = TRUE, !.exactError = error,
                                 !.driver = IF error THEN NoDriver ELSE d]
         IN  search' = Search_Decide(s)
    /\ UNCHANGED <<env, dbVars, req, created, hq, hstep, form, rf, city>>

\* lines 172-181: the exact lookup answers, with the row, with null, or with an error
Search_Exact ==
    /\ search.pc = "exact"
    /\ \E error \in BOOLEAN :
         LET found == {row \in drivers : row.driver_handle = search.q}
             d == IF found = {} THEN NoDriver ELSE DriverRow(CHOOSE row \in found : TRUE)
             s == [search EXCEPT !.exactLookup = TRUE, !.exactError = error,
                                 !.driver = IF error THEN NoDriver ELSE d]
         IN  search' = IF s.driver # NoDriver THEN [s EXCEPT !.pc = "done"]
                       ELSE Search_Decide(s)
    /\ UNCHANGED <<env, dbVars, req, created, hq, hstep, form, rf, city>>

\* the rows the prefix query of lines 202-211 selects
Search_Matching(s) ==
    {DriverRow(row) : row \in
        {row \in drivers :
            /\ Ilike(row.driver_handle, s.pattern)
            /\ s.initialState # <<>> => row.state = s.initialState
            /\ s.initialCarMake # <<>> =>
                  /\ ~row.car_make.null
                  /\ Ilike(row.car_make.s, buildContainsIlike(s.initialCarMake))}}

\* lines 202-216: the prefix query answers, with at most 25 rows or with an error
Search_Prefix ==
    /\ search.pc = "prefix"
    /\ \E sErr \in BOOLEAN :
         \E rows \in Limit(Search_Matching(search), SUGGESTION_LIMIT) :
            search' = [search EXCEPT !.pc = "done", !.prefixSearch = TRUE, !.sErr = sErr,
                                     !.suggestions = IF sErr THEN <<>> ELSE rows,
                                     !.showCreateDriver = TRUE]
    /\ UNCHANGED <<env, dbVars, req, created, hq, hstep, form, rf, city>>

\* lines 331-529: what the page renders below the search form
Rendered ==
    LET s == search
    IN  [driverCard |-> IF s.q # <<>> /\ s.driver # NoDriver THEN s.driver ELSE NoDriver,
         suggestions |->
            IF s.q # <<>> /\ s.driver = NoDriver /\ Len(s.suggestions) > 0
            THEN SubSeq(s.suggestions, 1,
                        IF Len(s.suggestions) < DISPLAY_LIMIT THEN Len(s.suggestions)
                        ELSE DISPLAY_LIMIT)
            ELSE <<>>,
         helper |-> s.helperMessage,
         createForm |-> s.q # <<>> /\ s.driver = NoDriver /\ s.showCreateDriver]

(***************************************************************************)
(* SearchForm (part_005): the gate of the search form                      *)
(***************************************************************************)
EndsWith(s, c) == s # <<>> /\ s[Len(s)] = c

\* lines 337-364: canSubmit for the normalized query normQ and the fields state and
\* carMake; helper is the message it triggers when it refuses
canSubmit(normQ, state, carMake) ==
    LET q == normQ
        isExactHandle == HANDLE_RE(normQ)
        plateParsed == parsePlateLeading(normQ)
        hasDisambiguatorsLive == Trim(state) # <<>> \/ Trim(carMake) # <<>>
    IN  IF q = <<>>
        THEN [ok |-> FALSE,
              helper |-> "Enter the last 4 digits + first name (example: 8841-mike)."]
        ELSE IF isExactHandle THEN [ok |-> TRUE, helper |-> NoHelper]
        ELSE IF plateParsed.matched
        THEN IF q = plateParsed.plate /\ ~hasDisambiguatorsLive
             THEN [ok |-> FALSE,
                   helper |-> "That's only the plate. Add state or car make, or include the first name (example: 7483-mike)."]
             ELSE IF EndsWith(q, "-")
             THEN [ok |-> FALSE,
                   helper |-> "Add at least one letter of the first name after the plate (example: 2222 t)."]
             ELSE [ok |-> TRUE, helper |-> NoHelper]
        ELSE [ok |-> FALSE,
              helper |-> "That doesn't look like a handle. Use: last 4 of license + first name (example: 8841-mike)."]

(***************************************************************************)
(* Inputs                                                                  *)
(***************************************************************************)
Body(driverId, stars, comment, tagIds) ==
    [kind |-> "object", driverId |-> driverId, stars |-> stars, comment |-> comment,
     tagIds |-> tagIds]

\* invalid JSON, and JSON that is no object (an array, a string, null)
MalformedBody == [Body(Undefined, Undefined, Undefined, Undefined) EXCEPT !.kind = "malformed"]

NonObjectBody == [Body(Undefined, Undefined, Undefined, Undefined) EXCEPT !.kind = "nonobject"]

D1 == Str(<<"d","1">>)

D2 == Str(<<" ","d","2"," ">>)

\* SLUR_BLOCKLIST = " Ab ,,cd": the terms "ab" and "cd"
BlocklistEnv == <<" ","A","b"," ",",",",","c","d">>

Envs ==
    {[supabase |-> TRUE, SLUR_BLOCKLIST |-> BlocklistEnv, IP_HASH_SALT |-> <<>>],
     [supabase |-> FALSE, SLUR_BLOCKLIST |-> BlocklistEnv, IP_HASH_SALT |-> <<"s">>]}

\* the requesters: x-forwarded-for "1", x-real-ip "2" with no x-forwarded-for, and
\* x-forwarded-for "1 , 9" (requester "1" again, through a proxy)
Headers ==
    {[xff |-> Header(<<"1">>), xrip |-> NoHeader],
     [xff |-> NoHeader, xrip |-> Header(<<"2">>)]}

ProxiedHeader == [xff |-> Header(<<"1"," ",",","9">>), xrip |-> Header(<<"9">>)]

Ok == Str(<<"o","k">>)

Tags == Arr(<<Str(<<"t","1">>), Str(<<"t","1">>), Str(<<" ","t","2">>), Null>>)

\* the bodies of the concurrent specification: valid reviews with and without tags
\* for two drivers, reviews that fail validation or moderation, and invalid JSON
Bodies ==
    {Body(D1, Num(50), Ok, Arr(<<>>)),
     Body(D1, Str(<<"3">>), Null, Tags),
     Body(D2, Num(45), Str(<<"c","r","a","p"," ","c","a","r">>), Undefined),
     Body(D1, Num(60), Ok, Arr(<<>>)),
     Body(D1, Num(30), Str(<<"a","B">>), Arr(<<>>)),
     Body(D1, Num(30), Str(<<"@","o","k">>), Arr(<<>>)),
     MalformedBody}

(***************************************************************************)
(* Specifications                                                          *)
(***************************************************************************)
UiIdle ==
    /\ search = NoSearch
    /\ form \in {NoFormState("CreateDriverForm")}
    /\ rf = NoReviewForm
    /\ city = NoCity

NormIdle ==
    /\ hq = <<>>
    /\ hstep = "idle"
    /\ UiIdle

EmptyDatabase ==
    /\ review_rate_limits = {}
    /\ reviews = {}
    /\ review_tags = {}
    /\ drivers = {}

Init ==
    /\ env \in Envs
    /\ EmptyDatabase
    /\ req = [r \in Requests |-> IdleRequest]
    /\ created = [ok |-> FALSE, error |-> NoErrorString]
    /\ NormIdle

\* concurrent requests to the moderated handler
Next ==
    \/ \E r \in Requests : \E b \in Bodies : \E h \in Headers : POST(r, b, h)
    \/ \E r \in Requests : POST_RateLimit(r)
    \/ \E r \in Requests : POST_Review(r)
    \/ \E r \in Requests : POST_Tags(r)

Spec == Init /\ [][Next]_vars

(***************************************************************************)
(* One request, every input: the validation and moderation pipeline        *)
(***************************************************************************)
ModerationEnvs ==
    Envs \cup {[supabase |-> TRUE, SLUR_BLOCKLIST |-> <<>>, IP_HASH_SALT |-> <<"s">>]}

DriverIdInputs ==
    {D1, D2, Str(<<" ", "\t">>), Str(<<>>), Undefined, Null, Num(70)}

StarsInputs ==
    {Num(50), Num(10), Num(45), Num(9), Num(0), Num(51), Num(60), Num(-10), Big,
     Undefined, Null, Bool(TRUE), Bool(FALSE), Arr(<<Num(30), Num(40)>>),
     Str(<<"3">>), Str(<<" ","5"," ">>), Str(<<"4",".","5">>), Str(<<"6">>), Str(<<>>),
     Str(<<"a","b","c">>), Str(<<"I","n","f","i","n","i","t","y">>), Str(<<"-","1">>)}

ShortComments ==
    {Undefined, Null, Str(<<>>), Str(<<" ","ZWSP","\n">>), Ok,
     Str(<<"a","b">>), Str(<<"\t"," ","A","b"," ","\n">>), Str(<<"x","a","B","x">>),
     Str(<<"a","ZWSP","b">>), Str(<<"a"," ","b">>), Str(<<"o","k"," ","C","D">>),
     Str(<<"c","r","a","p"," ","c","a","r">>), Str(<<"A","s","s",".","o","k">>),
     Str(<<"c","l","a","s","s">>),
     Str(<<"h","t","t","p",":","/","/","a">>), Str(<<"W","W","W",".","a">>),
     Str(<<"w","w","w","."," ","a">>), Str(<<"a","@","b",".","c","o">>),
     Str(<<"a","@","b",".","c">>), Str(<<"@","o","k">>), Str(<<"x","@","o","k">>),
     Str(<<"a","b"," ","w","w","w",".","a">>), Num(70)}

TagInputs == {Undefined, Tags, Arr(<<>>), Str(<<"t","1">>)}

Fill(n) == [i \in 1..n |-> "x"]

\* the ends of comments around MAX_COMMENT_CHARS characters long
CommentEnds ==
    {<<"a","b">>, <<"A","B","x","x">>, <<" ","a","b">>, <<"ZWSP","c","d">>, <<" "," ","o","k">>,
     <<" ","c","r","a","p">>, <<" ","w","w","w",".","a">>, <<" ","@","o","k">>, <<"x","x","x","x">>}

LongComments ==
    {Str(Fill(n) \o e) : n \in (MAX_COMMENT_CHARS - 4)..(MAX_COMMENT_CHARS + 1), e \in CommentEnds}

ModerationBodies ==
    {Body(d, st, c, t) : d \in DriverIdInputs, st \in StarsInputs, c \in ShortComments,
                         t \in TagInputs}
       \cup {Body(D1, Num(50), c, Arr(<<>>)) : c \in LongComments}
       \cup {MalformedBody, NonObjectBody}

InitModeration ==
    /\ env \in ModerationEnvs
    /\ EmptyDatabase
    /\ req = [r \in Requests |-> IdleRequest]
    /\ created = [ok |-> FALSE, error |-> NoErrorString]
    /\ NormIdle

NextModeration ==
    \/ /\ Arrives(1)
       /\ \E b \in ModerationBodies : \E h \in Headers \cup {ProxiedHeader} : POST(1, b, h)
    \/ POST_RateLimit(1)
    \/ POST_Review(1)
    \/ POST_Tags(1)

SpecModeration == InitModeration /\ [][NextModeration]_vars

(***************************************************************************)
(* The application: one deployed version of the route handler, and the     *)
(* driver form                                                             *)
(***************************************************************************)
AppBodies == {Body(D1, Num(50), Ok, Tags)}

DriverForms ==
    {[NoForm EXCEPT !.handleInput = <<" ","1","_","A","b">>, !.state = <<"T","X">>,
                    !.carMake = <<" ","k","i","a">>],
     [NoForm EXCEPT !.handleInput = <<"a","b">>, !.state = <<"T","X">>],
     [NoForm EXCEPT !.handleInput = <<"1","-","a","b">>]}

Deployed(version) == \A q \in Requests : req[q].handler \in {"", version}

NextApp ==
    \/ /\ Deployed("moderated")
       /\ \E r \in Requests : \E b \in AppBodies : \E h \in Headers : POST(r, b, h)
    \/ \E r \in Requests : POST_RateLimit(r)
    \/ \E r \in Requests : POST_Review(r)
    \/ \E r \in Requests : POST_Tags(r)
    \/ /\ Deployed("rollback")
       /\ \E r \in Requests : \E b \in AppBodies : \E h \in Headers : Legacy_POST(r, b, h)
    \/ \E r \in Requests : Legacy_RateLimit(r)
    \/ \E r \in Requests : Legacy_Review(r)
    \/ \E r \in Requests : Legacy_Rollback(r)
    \/ \E r \in Requests : Legacy_Tags(r)
    \/ \E f \in DriverForms : createDriver(f)

SpecApp == Init /\ [][NextApp]_vars

(***************************************************************************)
(* The handle normalizers, on every string of at most MaxLen characters    *)
(***************************************************************************)
MaxLen == 4

Alphabet == {"1", "a", "B", " ", "_", "-", "!"}

Strings == UNION {[1..n -> Alphabet] : n \in 0..MaxLen}

InitNormalize ==
    /\ env \in {e \in Envs : e.supabase}
    /\ EmptyDatabase
    /\ req = [r \in Requests |-> IdleRequest]
    /\ created = [ok |-> FALSE, error |-> NoErrorString]
    /\ hq = [fn |-> "", input |-> <<>>, out |-> <<>>]
    /\ hstep = "input"
    /\ UiIdle

NextNormalize ==
    \/ /\ hstep = "input"
       /\ \E x \in Strings : Normalize_Call(x)
    \/ Normalize_Again

SpecNormalize == InitNormalize /\ [][NextNormalize]_vars

(***************************************************************************)
(* The search page over a table of drivers                                 *)
(***************************************************************************)
MaxDrivers == 26

Driver(id, handle, state, carMake) ==
    [id |-> id, driver_handle |-> handle, display_name |-> displayNameFromHandle(handle),
     city |-> SqlNull, state |-> state, car_make |-> carMake,
     car_model |-> SqlNull, car_color |-> SqlNull]

TX == <<"T","X">>

\* four drivers, three of them with the plate 2222
FewDrivers ==
    {Driver(1, <<"2","2","2","2","-","t","o","m">>, TX, SqlText(<<"T","o","y","o","t","a">>)),
     Driver(2, <<"2","2","2","2","-","t","i","m">>, <<"C","A">>, SqlNull),
     Driver(3, <<"2","2","2","2","-","a","m","y">>, TX, SqlText(<<"K","i","a">>)),
     Driver(4, <<"a","b","-","t","o","m">>, TX, SqlText(<<"t","_","y">>))}

\* MaxDrivers drivers with the plate 2222 and a first name that starts with t
ManyDrivers ==
    {Driver(i, <<"2","2","2","2","-","t", LowerLetters[((i - 1) \div 26) + 1],
                 LowerLetters[((i - 1) % 26) + 1]>>, TX, SqlNull) : i \in 1..MaxDrivers}

SearchQueries ==
    {Undefined, Str(<<"m","i","k","e">>), Str(<<" ","2","2","2","2"," ">>),
     Str(<<"2","2","2","2"," ","T">>), Str(<<"2","2","2","2","_","t","o","m">>),
     Str(<<"2","2","2","2","-","b","o","b">>), Str(<<"a","b","-","t","o","m">>),
     Str(<<"a","b","-","x","y","z">>), Str(<<"2","2","2","2","-","t","%">>)}

SearchStates == {Undefined, Str(<<" ","t","x"," ">>), Str(<<" ">>)}

SearchCarMakes == {Undefined, Str(<<"t","_","y">>), Str(<<" ","K","I">>), Str(<<" ">>)}

InitSearch ==
    /\ env \in {e \in Envs : e.supabase}
    /\ review_rate_limits = {}
    /\ reviews = {}
    /\ review_tags = {}
    /\ drivers \in {FewDrivers, ManyDrivers}
    /\ req = [r \in Requests |-> IdleRequest]
    /\ created = [ok |-> FALSE, error |-> NoErrorString]
    /\ NormIdle

NextSearch ==
    \/ /\ search.pc = "idle"
       /\ \E q \in SearchQueries : \E state \in SearchStates : \E car_make \in SearchCarMakes :
             Search_Begin([q |-> q, state |-> state, car_make |-> car_make])
    \/ Search_Exact
    \/ Search_Prefix

SpecSearch == InitSearch /\ [][NextSearch]_vars

(***************************************************************************)
(* The handle field of CreateDriverForm, on the spellings of a plate and a *)
(* first name                                                              *)
(***************************************************************************)
Plates == {<<"7">>, <<"2","2","2","2">>}

FirstNames == {<<"a","b">>, <<"t","o","m">>}

Capitalized(s) == <<ToUpperChar(s[1])>> \o Tail(s)

Casings(s) == {s, ToUpperCase(s), Capitalized(s)}

\* 'p n', 'n p', 'pn', 'p-n' and 'p_n'
Spelled(p, n) ==
    {p \o <<" ">> \o n, n \o <<" ">> \o p, p \o n, p \o <<"-">> \o n, p \o <<"_">> \o n}

Punctuation == {"!", ".", "-", "_"}

Around == {<<>>, <<" ">>, <<"!">>, <<".", " ">>, <<"-">>, <<"_">>}

Spellings ==
    {before \o core \o after :
        before \in Around, after \in Around,
        core \in UNION {Spelled(p, c) : p \in Plates,
                                        c \in UNION {Casings(n) : n \in FirstNames}}}

NextHandle ==
    \/ /\ hstep = "input"
       /\ \E x \in Spellings : Normalize_Call(x)
    \/ /\ hstep = "input"
       /\ \E x \in Spellings : Handle_Change(x)
    \/ Normalize_Again

SpecHandle == InitNormalize /\ [][NextHandle]_vars

(***************************************************************************)
(* CreateDriverForm under every sequence of edits, submits and answers     *)
(***************************************************************************)
ValidHandleInput == <<" ","1","_","A","b">>

UnknownCity == <<"x","y">>

\* what the user may have entered: a valid handle and a state; an invalid handle; no
\* state; a city the list does not know, with and without the decision to keep it; a
\* comment over the limit
FormFields ==
    {[NoFields EXCEPT !.handleInput = ValidHandleInput, !.state = TX,
                      !.carMake = <<" ","k","i","a">>],
     [NoFields EXCEPT !.handleInput = ValidHandleInput, !.state = TX,
                      !.cityInput = UnknownCity, !.cityDecision = "enter_anyway"],
     [NoFields EXCEPT !.handleInput = ValidHandleInput, !.state = TX,
                      !.commentCount = MAX_COMMENT_CHARS + 1],
     [NoFields EXCEPT !.handleInput = <<"a","b">>, !.state = TX],
     [NoFields EXCEPT !.handleInput = <<"a","b">>, !.state = TX,
                      !.cityInput = UnknownCity],
     [NoFields EXCEPT !.handleInput = <<"a","b">>, !.state = TX,
                      !.commentCount = MAX_COMMENT_CHARS + 1],
     [NoFields EXCEPT !.handleInput = <<"1","-","a","b">>, !.cityInput = UnknownCity]}

InitForm ==
    /\ env \in {e \in Envs : e.supabase}
    /\ EmptyDatabase
    /\ req = [r \in Requests |-> IdleRequest]
    /\ created = [ok |-> FALSE, error |-> NoErrorString]
    /\ hq = <<>>
    /\ hstep = "idle"
    /\ search = NoSearch
    /\ form \in {NoFormState("CreateDriverForm"), NoFormState("part_008")}
    /\ rf = NoReviewForm
    /\ city = NoCity

NextForm ==
    \/ \E fields \in FormFields : Form_Edit(fields)
    \/ onCreateOnly
    \/ onCreateAndReview
    \/ Form_InsertReturns
    \/ Form_SelectReturns
    \/ Form_PostReturns

SpecForm == InitForm /\ [][NextForm]_vars

(***************************************************************************)
(* ReviewForm under every sequence of edits, submit events and answers     *)
(***************************************************************************)
TagIds == {"t1", "t2"}

InitReviewForm ==
    /\ env \in {e \in Envs : e.supabase}
    /\ EmptyDatabase
    /\ req = [r \in Requests |-> IdleRequest]
    /\ created = [ok |-> FALSE, error |-> NoErrorString]
    /\ NormIdle

NextReviewForm ==
    \/ ReviewForm_ButtonClick
    \/ ReviewForm_CmdEnter
    \/ ReviewForm_SubmitEvent
    \/ \E stars \in 1..5 : \E commentCount \in {0, MAX_COMMENT_CHARS, MAX_COMMENT_CHARS + 1} :
          ReviewForm_Edit(stars, commentCount)
    \/ \E id \in TagIds : toggleTag(id)
    \/ ReviewForm_Answered

SpecReviewForm == InitReviewForm /\ [][NextReviewForm]_vars

(***************************************************************************)
(* The forms of the search page: page.tsx renders ReviewForm under the     *)
(* driver that was found (line 420) and CreateDriverForm when none was     *)
(* (lines 510-527), so a page holds one of the two                         *)
(***************************************************************************)
NextForms ==
    \/ rf = NoReviewForm /\ NextForm
    \/ form.fields = NoFields /\ form.pc = "idle" /\ ~form.last.submitted /\ NextReviewForm

SpecForms == InitForm /\ [][NextForms]_vars

(***************************************************************************)
(* The city autocomplete of CreateDriverForm (CreateDriverForm.tsx lines   *)
(* 1524-2100) and of SearchForm (SearchForm.tsx lines 148-420)             *)
(***************************************************************************)
\* An event handler sets state; React renders; the effect of lines 1847-1919 runs
\* when one of its dependencies has changed. UiState pairs the form with the
\* autocomplete so that a handler, the render and the effect make one step.
MaxFetches == 2

CA == <<"C","A">>

\* the two entries of STATES the model keeps
STATES == {TX, CA}

\* city_suggestions is a function of the database: the cities of p_state whose name
\* starts with p_query, letter case ignored
CityNames(p_state) ==
    IF p_state = TX THEN {<<"A","b">>} ELSE IF p_state = CA THEN {<<"C","d">>} ELSE {}

city_suggestions(p_state, p_query) ==
    {n \in CityNames(p_state) :
        /\ Len(p_query) <= Len(n)
        /\ SubSeq(ToLowerCase(n), 1, Len(p_query)) = ToLowerCase(p_query)}

UiState(f, c) == [f |-> f, c |-> c]

City_typed(s) == Trim(s.f.fields.cityInput) # <<>>

\* CreateDriverForm.tsx lines 1595-1596
noCityMatches(s) ==
    /\ Form_statePicked(s.f)
    /\ s.c.cityOpen
    /\ ~s.c.cityLoading
    /\ ~s.f.fields.cityNotListed
    /\ City_typed(s)
    /\ s.f.fields.citySuggestions = {}

\* CreateDriverForm.tsx lines 1598-1605
showCityBanner(s) ==
    /\ Form_statePicked(s.f)
    /\ ~s.f.loading
    /\ ~s.f.fields.cityNotListed
    /\ City_typed(s)
    /\ ~Form_cityLooksValid(s.f)
    /\ s.f.fields.cityDecision = "null"
    /\ (s.f.cityTouched \/ s.f.submitAttempted \/ noCityMatches(s))

\* CreateDriverForm.tsx line 2378, SearchForm.tsx line 549: the list is rendered
City_ListShown(s) ==
    /\ Form_statePicked(s.f)
    /\ s.c.cityOpen
    /\ s.c.component = "CreateDriverForm" => ~s.f.loading /\ ~s.f.fields.cityNotListed

\* CreateDriverForm.tsx lines 1847-1868 and 1918, SearchForm.tsx lines 289-307 and
\* 349: the cleanup of the previous run cancels its timer; the effect clears the
\* list when no state is picked, returns early, or takes the next id and starts the
\* debounce timer
cityEffect(s) ==
    LET q == Trim(s.f.fields.cityInput)
        cleaned == [s.c EXCEPT !.timer = NoTimer]
    IN  IF ~Form_statePicked(s.f)
        THEN UiState([s.f EXCEPT !.fields.citySuggestions = {}],
                     [cleaned EXCEPT !.cityOpen = FALSE, !.cityLoading = FALSE,
                                     !.suggestionsFor = <<>>])
        ELSE IF IF s.c.component = "SearchForm" THEN ~s.c.cityOpen
                ELSE \/ s.f.fields.cityNotListed
                     \/ ~s.c.cityOpen /\ q = <<>>
                     \/ s.c.suppressCityOpen /\ ~s.c.cityOpen
        THEN UiState(s.f, cleaned)
        ELSE UiState(s.f,
                     [cleaned EXCEPT !.cityFetchId = @ + 1,
                                     !.timer = [id |-> s.c.cityFetchId + 1,
                                                p_state |-> s.f.fields.state,
                                                p_query |-> q]])

\* CreateDriverForm.tsx line 1919, SearchForm.tsx line 350: the dependencies
City_DepsChanged(old, new) ==
    \/ old.f.fields.state # new.f.fields.state
    \/ old.f.fields.cityInput # new.f.fields.cityInput
    \/ old.f.fields.cityNotListed # new.f.fields.cityNotListed
    \/ old.c.cityOpen # new.c.cityOpen

\* the state a handler has set is rendered and the effect runs if it has to
City_After(old, new) == IF City_DepsChanged(old, new) THEN cityEffect(new) ELSE new

\* SearchForm has no suppressCityOpenRef; at most MaxFetches fetches are started
City_Commit(r, last) ==
    /\ r.c.cityFetchId <= MaxFetches
    /\ form' = [r.f EXCEPT !.last = NoSubmit]
    /\ city' = [r.c EXCEPT !.last = last,
                           !.suppressCityOpen = r.c.component = "CreateDriverForm" /\ @]
    /\ UNCHANGED <<env, dbVars, req, created, hq, hstep, search, rf>>

City_Render(new, last) == City_Commit(City_After(UiState(form, city), new), last)

\* a field of the form can be used: the inputs are disabled while loading, and the
\* page leaves the form once the driver exists
City_Enabled ==
    /\ ~form.loading
    /\ form.driverId = 0

\* CreateDriverForm.tsx lines 1619-1632, SearchForm.tsx lines 191-196
resetCity(s) ==
    UiState([s.f EXCEPT !.fields.cityInput = <<>>, !.fields.cityNotListed = FALSE,
                        !.fields.citySuggestions = {}, !.fields.cityDecision = "null",
                        !.cityTouched = FALSE, !.submitAttempted = FALSE],
            [s.c EXCEPT !.cityOpen = FALSE, !.suggestionsFor = <<>>,
                        !.suppressCityOpen = FALSE])

\* CreateDriverForm.tsx lines 1634-1646
markCityNeedsDecision(s, new) ==
    IF /\ s.c.component = "CreateDriverForm"
       /\ Form_statePicked(s.f)
       /\ ~s.f.fields.cityNotListed
       /\ ~s.c.cityLoading
       /\ City_typed(s)
       /\ ~Form_cityLooksValid(s.f)
       /\ s.f.fields.cityDecision = "null"
    THEN UiState([new.f EXCEPT !.submitAttempted = TRUE], new.c)
    ELSE new

\* CreateDriverForm.tsx lines 1757-1771, SearchForm.tsx lines 216-229: the text of the
\* state field changes (typed or pasted); a valid code keeps the city as it is
onStateChange(v) ==
    /\ City_Enabled
    /\ ~city.focused
    /\ LET s == UiState(form, city)
           maybeCode == SubSeq(Trim(v), 1, IF Len(Trim(v)) < 2 THEN Len(Trim(v)) ELSE 2)
       IN  City_Render(IF maybeCode \in STATES /\ Len(Trim(v)) <= 2
                       THEN UiState([form EXCEPT !.fields.state = maybeCode], city)
                       ELSE resetCity(UiState([form EXCEPT !.fields.state = <<>>], city)),
                       NoResponse)

\* CreateDriverForm.tsx lines 1732-1755, SearchForm.tsx lines 198-214: a state of the
\* list is chosen; the city is reset and, a timer tick later, the city field gets the
\* focus and opens its list (CreateDriverForm.tsx lines 1921-1925)
pickState(code) ==
    /\ City_Enabled
    /\ ~city.focused
    /\ LET s == resetCity(UiState([form EXCEPT !.fields.state = code,
                                               !.error = IF city.component = "SearchForm"
                                                         THEN @ ELSE NullError],
                                  city))
           picked == City_After(UiState(form, city), s)
       IN  City_Commit(City_After(picked,
                                  UiState(picked.f,
                                          [picked.c EXCEPT !.cityOpen = TRUE,
                                                           !.focused = TRUE,
                                                           !.suppressCityOpen = FALSE])),
                       NoResponse)

\* CreateDriverForm.tsx lines 1921-1925, SearchForm.tsx lines 540-542: the city field,
\* disabled until a state is picked, gets the focus
onCityFocus ==
    /\ City_Enabled
    /\ ~city.focused
    /\ Form_statePicked(form)
    /\ City_Render(UiState(form, [city EXCEPT !.cityOpen = TRUE, !.focused = TRUE,
                                              !.suppressCityOpen = FALSE]),
                   NoResponse)

\* CreateDriverForm.tsx lines 1927-1940, SearchForm.tsx lines 536-539
onCityChange(v) ==
    /\ City_Enabled
    /\ city.focused
    /\ v # form.fields.cityInput
    /\ City_Render(UiState(IF city.component = "SearchForm"
                           THEN [form EXCEPT !.fields.cityInput = v]
                           ELSE [form EXCEPT !.fields.cityInput = v,
                                             !.fields.cityNotListed = FALSE,
                                             !.fields.cityDecision = "null",
                                             !.submitAttempted = FALSE,
                                             !.cityTouched = FALSE],
                           [city EXCEPT !.cityOpen = TRUE, !.suppressCityOpen = FALSE]),
                   NoResponse)

\* CreateDriverForm.tsx lines 2363-2372: the city field loses the focus. SearchForm has
\* no onBlur: its list is closed by a pointerdown outside the box (lines 405-423) and
\* stays open when the focus leaves by the keyboard
onCityBlur ==
    /\ City_Enabled
    /\ city.focused
    /\ \E pointer \in BOOLEAN :
         LET s == UiState(form, city)
             closed == [city EXCEPT !.cityOpen = FALSE, !.focused = FALSE,
                                    !.suppressCityOpen = city.cityOpen \/ @]
         IN  IF city.component = "SearchForm"
             THEN City_Render(UiState(form, IF pointer THEN closed
                                            ELSE [city EXCEPT !.focused = FALSE]),
                              NoResponse)
             ELSE /\ pointer
                  /\ City_Render(markCityNeedsDecision(s,
                                     UiState([form EXCEPT !.cityTouched =
                                                  @ \/ (City_typed(s)
                                                        /\ ~form.fields.cityNotListed)],
                                             closed)),
                                 NoResponse)

\* CreateDriverForm.tsx lines 2025-2034, SearchForm.tsx lines 364-371: Escape closes
\* the list
onCityEscape ==
    /\ City_Enabled
    /\ city.focused
    /\ city.cityOpen
    /\ LET s == UiState(form, city)
       IN  City_Render(markCityNeedsDecision(s,
                           UiState(form, [city EXCEPT !.cityOpen = FALSE,
                                                      !.suppressCityOpen = TRUE])),
                       NoResponse)

\* CreateDriverForm.tsx lines 1942-1956, SearchForm.tsx lines 352-359: a suggestion of
\* the list, which shows "Loading..." while cityLoading, is chosen; the focus moves on
pickCitySuggestion(name) ==
    /\ City_Enabled
    /\ City_ListShown(UiState(form, city))
    /\ ~city.cityLoading
    /\ name \in form.fields.citySuggestions
    /\ City_Render(UiState(IF city.component = "SearchForm"
                           THEN [form EXCEPT !.fields.cityInput = name]
                           ELSE [form EXCEPT !.fields.cityInput = name,
                                             !.fields.cityNotListed = FALSE,
                                             !.fields.cityDecision = "picked_from_list",
                                             !.cityTouched = FALSE,
                                             !.submitAttempted = FALSE,
                                             !.error = NullError],
                           [city EXCEPT !.cityOpen = FALSE, !.focused = FALSE,
                                        !.suppressCityOpen = TRUE]),
                   NoResponse)

\* CreateDriverForm.tsx lines 1958-1971: "City not listed", in the list or the banner
chooseNotListed ==
    /\ City_Enabled
    /\ city.component = "CreateDriverForm"
    /\ City_ListShown(UiState(form, city)) \/ showCityBanner(UiState(form, city))
    /\ City_Render(UiState([form EXCEPT !.fields.cityInput = <<>>,
                                        !.fields.cityNotListed = TRUE,
                                        !.fields.cityDecision = "leave_blank",
                                        !.cityTouched = FALSE, !.submitAttempted = FALSE],
                           [city EXCEPT !.cityOpen = FALSE, !.focused = FALSE,
                                        !.suppressCityOpen = TRUE]),
                   NoResponse)

\* CreateDriverForm.tsx lines 1973-1984 and 2056-2064: "Enter anyway" in the banner, or
\* Enter in the city field over an empty list
onCityEnterAnyway ==
    /\ City_Enabled
    /\ city.component = "CreateDriverForm"
    /\ \/ showCityBanner(UiState(form, city))
       \/ /\ city.focused
          /\ city.cityOpen
          /\ City_typed(UiState(form, city))
          /\ ~form.fields.cityNotListed
          /\ form.fields.cityDecision = "null"
          /\ ~city.cityLoading
          /\ form.fields.citySuggestions = {}
    /\ City_Render(UiState([form EXCEPT !.fields.cityDecision = "enter_anyway",
                                        !.error = NullError,
                                        !.cityTouched = FALSE, !.submitAttempted = FALSE],
                           [city EXCEPT !.cityOpen = FALSE, !.focused = FALSE,
                                        !.suppressCityOpen = TRUE]),
                   NoResponse)

\* CreateDriverForm.tsx lines 1986-1995: "Pick from list" in the banner
onCityPickFromList ==
    /\ City_Enabled
    /\ city.component = "CreateDriverForm"
    /\ showCityBanner(UiState(form, city))
    /\ City_Render(UiState([form EXCEPT !.fields.cityDecision = "picked_from_list",
                                        !.cityTouched = FALSE, !.submitAttempted = FALSE],
                           [city EXCEPT !.cityOpen = TRUE, !.focused = TRUE,
                                        !.suppressCityOpen = FALSE]),
                   NoResponse)

\* CreateDriverForm.tsx lines 1869-1876, SearchForm.tsx lines 307-314: the debounce
\* timer fires: cityLoading is set and city_suggestions is called
City_TimerFires ==
    /\ city.timer # NoTimer
    /\ City_Render(UiState(form, [city EXCEPT !.cityLoading = TRUE,
                                              !.rpcs = @ \cup {city.timer},
                                              !.issued = city.timer.id,
                                              !.timer = NoTimer]),
                   NoResponse)

\* City_Answers without the test of cityFetchId: every response is applied
City_Answers_NoIdTest ==
    /\ city.rpcs # {}
    /\ \E r \in city.rpcs : \E rpcErr \in BOOLEAN :
         LET answered == [city EXCEPT !.rpcs = @ \ {r}]
             suggestions == {Trim(n) : n \in city_suggestions(r.p_state, r.p_query)}
         IN  City_Render(
                 IF rpcErr
                 THEN UiState([form EXCEPT !.fields.citySuggestions = {}],
                              [answered EXCEPT !.cityLoading = FALSE,
                                               !.suggestionsFor = <<>>])
                 ELSE UiState([form EXCEPT !.fields.citySuggestions = suggestions],
                              [answered EXCEPT
                                  !.cityLoading = FALSE,
                                  !.suggestionsFor = r.p_state,
                                  !.cityOpen = IF city.component = "SearchForm" THEN @
                                               ELSE ~city.suppressCityOpen,
                                  !.suppressCityOpen = FALSE]),
                 [id |-> r.id, applied |-> TRUE])

\* CreateDriverForm.tsx lines 1872-1916, SearchForm.tsx lines 310-347: a call of
\* city_suggestions answers, in any order: a response under an id that is not the
\* current one is dropped; an error clears the list; rows become the list (their
\* display names trimmed, the empty ones left out), and CreateDriverForm opens the
\* list unless suppressCityOpenRef is set
City_Answers ==
    /\ city.rpcs # {}
    /\ \E r \in city.rpcs : \E rpcErr \in BOOLEAN :
         LET answered == [city EXCEPT !.rpcs = @ \ {r}]
             suggestions == {Trim(n) : n \in city_suggestions(r.p_state, r.p_query)}
         IN  City_Render(
                 IF city.cityFetchId # r.id THEN UiState(form, answered)
                 ELSE IF rpcErr
                 THEN UiState([form EXCEPT !.fields.citySuggestions = {}],
                              [answered EXCEPT !.cityLoading = FALSE,
                                               !.suggestionsFor = <<>>])
                 ELSE UiState([form EXCEPT !.fields.citySuggestions = suggestions],
                              [answered EXCEPT
                                  !.cityLoading = FALSE,
                                  !.suggestionsFor = r.p_state,
                                  !.cityOpen = IF city.component = "SearchForm" THEN @
                                               ELSE ~city.suppressCityOpen,
                                  !.suppressCityOpen = FALSE]),
                 [id |-> r.id, applied |-> city.cityFetchId = r.id])

(***************************************************************************)
(* The city autocomplete under every interleaving of events of the state   *)
(* and city fields, timers, responses and submits                          *)
(***************************************************************************)
StateInputs == {<<>>, <<"T">>, TX, CA}

CityInputs == {<<>>, <<"a">>, <<"a","b">>, <<"x">>}

\* the page passes the query as the handle of the driver to create
InitCity ==
    /\ env \in {e \in Envs : e.supabase}
    /\ EmptyDatabase
    /\ req = [r \in Requests |-> IdleRequest]
    /\ created = [ok |-> FALSE, error |-> NoErrorString]
    /\ hq = <<>>
    /\ hstep = "idle"
    /\ search = NoSearch
    /\ rf = NoReviewForm
    /\ form = [NoFormState("CreateDriverForm") EXCEPT
                  !.fields.handleInput = ValidHandleInput]
    /\ city \in {NoCity,
                 [NoCity EXCEPT !.component = "SearchForm", !.suppressCityOpen = FALSE]}

NextCity ==
    \/ \E v \in StateInputs : onStateChange(v)
    \/ \E code \in STATES : pickState(code)
    \/ onCityFocus
    \/ \E v \in CityInputs : onCityChange(v)
    \/ onCityBlur
    \/ onCityEscape
    \/ \E name \in form.fields.citySuggestions : pickCitySuggestion(name)
    \/ chooseNotListed
    \/ onCityEnterAnyway
    \/ onCityPickFromList
    \/ City_TimerFires
    \/ City_Answers

SpecCity == InitCity /\ [][NextCity]_vars

(***************************************************************************)
(* CreateDriverForm with its city autocomplete and "Create driver only"    *)
(***************************************************************************)
InitCitySave == InitCity /\ city.component = "CreateDriverForm"

\* a click on the button takes the focus from the city field first
NextCitySave ==
    \/ NextCity
    \/ ~city.focused /\ form.driverId = 0 /\ onCreateOnly
    \/ Form_InsertReturns

SpecCitySave == InitCitySave /\ [][NextCitySave]_vars

(***************************************************************************)
(* Vocabulary of the properties                                            *)
(***************************************************************************)
Moderated == {r \in Requests : req[r].handler = "moderated"}

\* r passed validation and moderation: it sent the rate-limit insert
Submitted(r) == req[r].pc # "idle" /\ req[r].ipHash # <<>>

Failed(err) == err # NotCalled /\ err # NoError

SameRequester(a, b) ==
    /\ req[a].driverId = req[b].driverId
    /\ req[a].ipHash = req[b].ipHash

\* b was received after a had been answered
Sequential(a, b) == a \in req[b].before

RowsBy(r) ==
    [rl |-> {row \in review_rate_limits : row.by = r},
     rv |-> {row \in reviews : row.by = r},
     tg |-> {row \in review_tags : \E v \in reviews : v.by = r /\ v.id = row.review_id}]

WroteNothing(r) == RowsBy(r) = [rl |-> {}, rv |-> {}, tg |-> {}]

\* a, then b: two answered valid submissions of one requester for one driver, a
\* being the first submission of that requester for that driver
FirstThenSecond(a, b) ==
    /\ a \in Moderated /\ b \in Moderated
    /\ a \in Answered /\ b \in Answered
    /\ Submitted(a) /\ Submitted(b)
    /\ SameRequester(a, b)
    /\ Sequential(a, b)
    /\ \A c \in Requests \ {a} : Submitted(c) /\ SameRequester(a, c) => Sequential(a, c)

StarsOutOfRange(b) ==
    LET stars == Number(BodyObject(b).stars)
    IN  stars.k # "fin" \/ stars.v < 10 \/ stars.v > 50

MissingDriverId(b) == Trim(StringOrEmpty(BodyObject(b).driverId)) = <<>>

\* the comment as the hard-block checks see it
Moderated_Comment(b) == clampComment(normalize(BodyObject(b).comment))

HardBlocked(b) ==
    \/ containsSlur(Moderated_Comment(b), SLUR_BLOCKLIST(env.SLUR_BLOCKLIST))
    \/ containsLinkOrHandle(Moderated_Comment(b))

\* a validation or moderation failure
InvalidInput(b) == MissingDriverId(b) \/ StarsOutOfRange(b) \/ HardBlocked(b)

StatusesExcept500(r) ==
    /\ req[r].status \in {200, 400, 429, 500}
    /\ req[r].threw <=> ~env.supabase
    /\ req[r].status = 400 <=> ~req[r].threw /\ InvalidInput(req[r].body)
    /\ req[r].status = 429 <=> req[r].rlErr.code = "23505"
    /\ req[r].body.kind # "object" /\ ~req[r].threw => req[r].status = 400

C2_OneReviewPerRequester ==
    /\ \A v, w \in reviews :
          req[v.by].driverId = req[w.by].driverId /\ req[v.by].ipHash = req[w.by].ipHash
             => v = w
    /\ \A v \in reviews :
          /\ v.driver_id = req[v.by].driverId
          /\ req[v.by].rlErr = NoError
          /\ \E row \in review_rate_limits :
                row.by = v.by /\ row.driver_id = v.driver_id /\ row.ip_hash = req[v.by].ipHash

\* two requests of one requester for one driver overlap in time; one saved its review
\* and the other ran into the unique constraint
C2_Witness ==
    \E a, b \in Requests :
        /\ a # b /\ Submitted(a) /\ Submitted(b) /\ SameRequester(a, b)
        /\ ~Sequential(a, b) /\ ~Sequential(b, a)
        /\ \E v \in reviews : v.by = a
        /\ req[b].rlErr = UniqueViolation

(***************************************************************************)
(* C3                                                                      *)
(***************************************************************************)
StarsInRange(x) == x.k = "fin" /\ 10 <= x.v /\ x.v <= 50

\* C3, as claimed: every request whose stars, converted to a number, are not finite
\* or lie outside [1,5] is answered 400 and writes no row to review_rate_limits,
\* reviews or review_tags; every row of reviews has 1 <= stars <= 5.
C3_BadStarsAlways400 ==
    /\ \A r \in Moderated \cap Answered :
          StarsOutOfRange(req[r].body) => req[r].status = 400 /\ WroteNothing(r)
    /\ \A v \in reviews : StarsInRange(v.stars)

\* C3, amended: such a request is answered 400, or 500 when the Supabase environment
\* variables are missing (the handler throws before it validates); in both cases no
\* database call is made and no row is written; every row of reviews has
\* 1 <= stars <= 5.
C3_BadStarsRejected ==
    /\ \A r \in Moderated \cap Answered :
          StarsOutOfRange(req[r].body) =>
             /\ req[r].status = IF env.supabase THEN 400 ELSE 500
             /\ ~req[r].ok
             /\ req[r].rlErr = NotCalled
             /\ WroteNothing(r)
    /\ \A v \in reviews : StarsInRange(v.stars) /\ v.stars = req[v.by].stars

\* a request whose stars are a string that converts to no number in [1,5] was
\* answered 400 for its stars
C3_Witness ==
    \E r \in Moderated \cap Answered :
        /\ req[r].body.stars.t = "str"
        /\ StarsOutOfRange(req[r].body)
        /\ req[r].status = 400 /\ req[r].error = "Stars must be 1-5."

(***************************************************************************)
(* C4                                                                      *)
(***************************************************************************)
\* the non-empty terms of SLUR_BLOCKLIST, trimmed and in lower case
Terms ==
    LET list == SLUR_BLOCKLIST(env.SLUR_BLOCKLIST)
    IN  {list[i] : i \in DOMAIN list} \ {<<>>}

\* the text s contains the lower-case term in some letter casing
ContainsAnyCase(s, term) ==
    \E i \in 1..(Len(s) - Len(term) + 1) :
        \A j \in DOMAIN term : ToLowerChar(s[i + j - 1]) = term[j]

\* the comment of the body as text
CommentText(b) == StringOrEmpty(BodyObject(b).comment)

FirstChars(s, n) == IF Len(s) > n THEN SubSeq(s, 1, n) ELSE s

\* C4, as claimed (for a deployment whose Supabase variables are set): for every
\* non-empty term of SLUR_BLOCKLIST, a request whose comment contains the term in any
\* letter casing, whatever whitespace surrounds it, is answered 400 and saves no review.
C4_EveryOccurrenceRejected ==
    \A r \in Moderated \cap Answered : \A term \in Terms :
        env.supabase /\ ContainsAnyCase(CommentText(req[r].body), term) =>
            req[r].status = 400 /\ RowsBy(r).rv = {}

\* C4, amended: the rejection covers the occurrences of the term within the first 500
\* characters of the normalized comment (zero-width characters removed, whitespace
\* runs collapsed, trimmed): such a request is answered 400, with the 'prohibited
\* language' message when its driverId and stars are valid, and writes nothing; a
\* term that only occurs beyond the cut does not cause the rejection.
C4_OccurrenceWithinCutRejected ==
    \A r \in Moderated \cap Answered :
        LET b == req[r].body
            seen == FirstChars(normalize(BodyObject(b).comment), MAX_COMMENT_CHARS)
            hit == \E term \in Terms : ContainsAnyCase(seen, term)
        IN  /\ env.supabase /\ hit => req[r].status = 400 /\ WroteNothing(r)
            /\ req[r].error = "Your comment contains prohibited language."
                  <=> env.supabase /\ hit /\ ~MissingDriverId(b) /\ ~StarsOutOfRange(b)

\* a comment holding a term in another casing than the blocklist's, between
\* whitespace, was rejected for prohibited language
C4_Witness ==
    \E r \in Moderated \cap Answered : \E term \in Terms :
        LET text == CommentText(req[r].body)
        IN  /\ ContainsAnyCase(text, term)
            /\ ~Includes(text, term)
            /\ IsSpace(text[1]) /\ IsSpace(text[Len(text)])
            /\ req[r].status = 400
            /\ req[r].error = "Your comment contains prohibited language."

(***************************************************************************)
(* C5                                                                      *)
(***************************************************************************)
\* the first check, in the claimed order, that the body fails
FirstFailure(b) ==
    IF MissingDriverId(b) THEN "Missing driverId."
    ELSE IF StarsOutOfRange(b) THEN "Stars must be 1-5."
    ELSE IF \E term \in Terms : ContainsAnyCase(Moderated_Comment(b), term)
    THEN "Your comment contains prohibited language."
    ELSE IF containsLinkOrHandle(Moderated_Comment(b))
    THEN "Please don't include links, emails, or social handles."
    ELSE NoErrorString

\* C5: the steps run in the order validate, normalize, slur hard-block,
\* link/email/@handle hard-block, profanity soft-clean, rate-limit gate, persist: a
\* request is answered for the first check it fails, the rate-limit insert is sent only
\* by a request that failed none, with its comment already soft-cleaned, and every
\* request answered 400 made no database call, wrote no row to review_rate_limits,
\* reviews or review_tags and holds no rate-limit row for its driver.
C5_RejectedBeforeGate ==
    \A r \in Moderated \cap Answered :
        LET b == req[r].body
        IN  /\ req[r].status = 400 =>
                 /\ req[r].error = FirstFailure(b)
                 /\ req[r].rlErr = NotCalled
                 /\ req[r].reviewErr = NotCalled /\ req[r].tagsErr = NotCalled
                 /\ WroteNothing(r)
            /\ req[r].rlErr # NotCalled =>
                 /\ FirstFailure(b) = NoErrorString
                 /\ req[r].comment.null \/ ~leoProfanity_check(req[r].comment.s)
            /\ \A v \in RowsBy(r).rv : req[r].rlErr = NoError /\ v.comment = req[r].comment

\* a comment with both a blocklisted term and a link was rejected for the term, and
\* the tables are empty
C5_Witness ==
    \E r \in Moderated \cap Answered :
        /\ req[r].status = 400
        /\ req[r].error = "Your comment contains prohibited language."
        /\ containsLinkOrHandle(Moderated_Comment(req[r].body))
        /\ review_rate_limits = {} /\ reviews = {} /\ review_tags = {}

(***************************************************************************)
(* C6                                                                      *)
(***************************************************************************)
\* t is s with some of its characters overwritten by '*'
Masked(s, t) == Len(t) = Len(s) /\ \A i \in DOMAIN s : t[i] = s[i] \/ t[i] = "*"

\* C6: the comment moderated and persisted is at most 500 characters long: it is
\* the first 500 characters of the normalized comment (with profane words masked), the
\* hard-block checks see those characters only, and an empty comment is stored as null.
C6_CommentAtMost500 ==
    /\ \A r \in Moderated :
          LET b == req[r].body
              seen == FirstChars(normalize(BodyObject(b).comment), MAX_COMMENT_CHARS)
          IN  /\ Submitted(r) =>
                   /\ req[r].comment.null <=> seen = <<>>
                   /\ ~req[r].comment.null =>
                         Len(req[r].comment.s) <= MAX_COMMENT_CHARS /\ Masked(seen, req[r].comment.s)
              /\ r \in Answered /\ env.supabase /\ ~MissingDriverId(b) /\ ~StarsOutOfRange(b) =>
                   (req[r].status = 400 <=>
                       \/ containsSlur(seen, SLUR_BLOCKLIST(env.SLUR_BLOCKLIST))
                       \/ containsLinkOrHandle(seen))
    /\ \A v \in reviews :
          /\ v.comment = req[v.by].comment
          /\ v.comment.null \/ (v.comment.s # <<>> /\ Len(v.comment.s) <= MAX_COMMENT_CHARS)

\* a review was saved with a comment of exactly 500 characters, cut from a longer
\* normalized comment
C6_Witness ==
    \E v \in reviews :
        /\ ~v.comment.null /\ Len(v.comment.s) = MAX_COMMENT_CHARS
        /\ Len(normalize(BodyObject(req[v.by].body).comment)) > MAX_COMMENT_CHARS

(***************************************************************************)
(* C7                                                                      *)
(***************************************************************************)
\* C7, as claimed: every response is 200, 400, 429 or 500; 400 exactly for
\* validation/moderation failures, 429 exactly for the unique violation 23505 of the
\* rate-limit insert, 500 for every other database error and for a thrown exception
\* (missing environment variables, which precede validation); a malformed or
\* non-object body is handled as {} and answered 400.
C7_EveryOtherErrorIs500 ==
    \A r \in Moderated \cap Answered :
        /\ StatusesExcept500(r)
        /\ req[r].status = 500 <=>
              \/ req[r].threw
              \/ req[r].rlErr = StatementFailure
              \/ Failed(req[r].reviewErr)
              \/ Failed(req[r].tagsErr)

\* C7, amended: as claimed, except that 500 answers a thrown exception and every
\* other error of the review_rate_limits or reviews insert only; a failed review_tags
\* insert is logged and the request is answered 200 like a successful one.
C7_StatusCategories ==
    \A r \in Moderated \cap Answered :
        /\ StatusesExcept500(r)
        /\ req[r].status = 500 <=>
              \/ req[r].threw
              \/ req[r].rlErr = StatementFailure
              \/ Failed(req[r].reviewErr)
        /\ req[r].status = 200 <=> req[r].rlErr = NoError /\ req[r].reviewErr = NoError
        /\ Failed(req[r].tagsErr) => req[r].status = 200

C7_Witness ==
    \E a, b \in Moderated \cap Answered :
        /\ req[a].status = 200 /\ Failed(req[a].tagsErr)
        /\ req[b].status = 400 /\ req[b].body.kind = "malformed"

(***************************************************************************)
(* C8                                                                      *)
(***************************************************************************)
\* C8, as claimed: whenever an insert into review_rate_limits, reviews or review_tags
\* fails, the response body carries an error string describing the failure.
C8_EveryFailureSurfaced ==
    \A r \in Moderated \cap Answered :
        Failed(req[r].rlErr) \/ Failed(req[r].reviewErr) \/ Failed(req[r].tagsErr)
            => req[r].error # NoErrorString

\* C8, amended: whenever the insert into review_rate_limits or reviews fails, the
\* response is {error} with the database message (the fixed "already reviewed"
\* message for the unique violation) and no ok; a failed insert into review_tags is
\* not surfaced: the response is 200 {ok: true, review} without an error string.
C8_WriteFailuresSurfaced ==
    \A r \in Moderated \cap Answered :
        /\ Failed(req[r].rlErr) \/ Failed(req[r].reviewErr)
              => req[r].error # NoErrorString /\ ~req[r].ok
        /\ req[r].rlErr = StatementFailure => req[r].error = req[r].rlErr.message
        /\ req[r].rlErr = UniqueViolation
              => req[r].error = "You already reviewed this driver from this network."
        /\ Failed(req[r].reviewErr) => req[r].error = req[r].reviewErr.message
        /\ Failed(req[r].tagsErr)
              => req[r].ok /\ req[r].error = NoErrorString /\ req[r].review \in reviews

C8_Witness ==
    \E a, b \in Moderated \cap Answered :
        /\ Failed(req[a].reviewErr) /\ req[a].error = StatementFailure.message
        /\ Failed(req[b].tagsErr) /\ req[b].ok

(***************************************************************************)
(* C9                                                                      *)
(***************************************************************************)
\* C9, as claimed: no operation updates or deletes a row: every row of drivers,
\* reviews, review_tags and review_rate_limits is, after every step of a review
\* submission or a driver creation, still present and unchanged.
C9_NoRowEverDeleted ==
    [][/\ drivers \subseteq drivers'
       /\ reviews \subseteq reviews'
       /\ review_tags \subseteq review_tags'
       /\ review_rate_limits \subseteq review_rate_limits']_vars

\* C9, amended: no operation updates or deletes a row of drivers, reviews or
\* review_tags, and none updates a row of review_rate_limits; a row of
\* review_rate_limits is deleted only by the earlier version of the route handler,
\* which, when its insert into reviews has failed, deletes the row the same request
\* inserted and answers 500.
C9_OnlyRollbackDeletes ==
    [][/\ drivers \subseteq drivers'
       /\ reviews \subseteq reviews'
       /\ review_tags \subseteq review_tags'
       /\ \A row \in review_rate_limits \ review_rate_limits' :
             /\ req[row.by].handler = "rollback"
             /\ req[row.by].pc = "rollback"
             /\ Failed(req[row.by].reviewErr)
             /\ RowsBy(row.by).rv = {}
             /\ req'[row.by].status = 500]_vars

\* a request was answered 500 after its rate-limit row was deleted, while a driver and
\* another request's rate-limit row and review are in the database
C9_Witness ==
    \E a, b \in Requests :
        /\ req[a].rolledBack /\ req[a].status = 500 /\ RowsBy(a).rl = {}
        /\ RowsBy(b).rl # {} /\ RowsBy(b).rv # {}
        /\ drivers # {}

(***************************************************************************)
(* C10                                                                     *)
(***************************************************************************)
\* ^[a-z0-9]{1,4}-[a-z]{2,24}$
Canonical(x) ==
    \E k \in 2..5 :
        /\ Len(x) >= k + 2 /\ Len(x) <= k + 24
        /\ x[k] = "-"
        /\ \A i \in 1..(k - 1) : IsLower(x[i]) \/ IsDigit(x[i])
        /\ \A i \in (k + 1)..Len(x) : IsLower(x[i])

\* C10: each of normalizeQuery, normalizeQueryToHandle and normalizeToHandle is
\* idempotent, normalize(normalize(x)) = normalize(x) for every string x, and
\* returns every string matching ^[a-z0-9]{1,4}-[a-z]{2,24}$ unchanged.
C10_NormalizeIdempotent ==
    /\ hstep = "twice" => hq.out = hq.input
    /\ hstep = "once" /\ Canonical(hq.input) => hq.out = hq.input

\* normalizeToHandle, applied a second time, returned the canonical handle 1-ab
C10_Witness ==
    /\ hstep = "twice"
    /\ hq.fn = "normalizeToHandle"
    /\ Canonical(hq.out)
    /\ hq.out = <<"1", "-", "a", "b">>

(***************************************************************************)
(* C11                                                                     *)
(***************************************************************************)
\* the page has run to its end
SearchDone == search.pc = "done"

FourDigits(x) == Len(x) = 4 /\ \A i \in DOMAIN x : IsDigit(x[i])

\* neither a state nor a car make came with the query
NoDisambiguator == search.initialState = <<>> /\ search.initialCarMake = <<>>

\* rows of drivers whose handle starts with the plate of the query
SamePlate == {row \in drivers : SubSeq(row.driver_handle, 1, 4) = SubSeq(search.q, 1, 4)}

\* C11: a query that normalizes to exactly four digits, with neither a state nor a
\* car make, never triggers a prefix search: the page ends without one, with no
\* suggestions, no driver, and the "That's only the plate" message set.
C11_PlateOnlyNotSearched ==
    search.pc # "idle" /\ FourDigits(search.q) /\ NoDisambiguator =>
        /\ SearchDone
        /\ ~search.prefixSearch
        /\ search.pattern = <<>>
        /\ search.suggestions = <<>> /\ Rendered.suggestions = <<>>
        /\ search.driver = NoDriver /\ Rendered.driverCard = NoDriver
        /\ search.helperMessage = PlateOnlyHelper

\* the query " 2222 " with a blank state and a blank car make, over a table with
\* drivers of that plate
C11_Witness ==
    /\ SearchDone
    /\ search.q = <<"2","2","2","2">>
    /\ NoDisambiguator
    /\ SamePlate # {}
    /\ search.helperMessage = PlateOnlyHelper

(***************************************************************************)
(* C12                                                                     *)
(***************************************************************************)
\* the rows of drivers whose handle is the normalized query
ExactMatches == {DriverRow(row) : row \in {row \in drivers : row.driver_handle = search.q}}

\* the driver of the query is shown and nothing else: no prefix search was issued, no
\* suggestions, no helper message
OnlyDriverShown ==
    /\ search.driver \in ExactMatches
    /\ Rendered.driverCard = search.driver
    /\ ~search.prefixSearch /\ search.pattern = <<>>
    /\ search.suggestions = <<>> /\ Rendered.suggestions = <<>>
    /\ search.helperMessage = NoHelper

\* no prefix search is prepared or issued for an exact handle before the exact lookup
ExactLookupFirst ==
    HANDLE_RE(search.q) /\ search.pc \in {"prefix", "done"} => search.exactLookup

\* C12 as stated: the exact lookup comes first, and when the normalized query matches
\* the handle pattern and a driver with that driver_handle exists, that driver is
\* shown, no prefix search is issued, suggestions are empty and no helper message is
\* set, whatever disambiguators were supplied.
C12_ExistingDriverShown ==
    /\ ExactLookupFirst
    /\ SearchDone /\ HANDLE_RE(search.q) /\ ExactMatches # {} => OnlyDriverShown

\* C12, amended: the same, when the exact lookup returns without an error
C12_ExistingDriverShownUnlessError ==
    /\ ExactLookupFirst
    /\ SearchDone /\ HANDLE_RE(search.q) /\ ExactMatches # {} /\ ~search.exactError
          => OnlyDriverShown

\* the driver 2222-tom is found by the query "2222_tom", sent with a state and a car
\* make that other drivers of the plate match
C12_Witness ==
    /\ SearchDone
    /\ search.exactLookup /\ ~search.exactError
    /\ search.driver.driver_handle = <<"2","2","2","2","-","t","o","m">>
    /\ search.initialState = TX /\ search.initialCarMake # <<>>
    /\ Cardinality(SamePlate) > 1

(***************************************************************************)
(* C13                                                                     *)
(***************************************************************************)
StartsWith(s, prefix) ==
    /\ Len(prefix) <= Len(s)
    /\ \A i \in DOMAIN prefix : s[i] = prefix[i]

\* plate-namePrefix, or plate- for a query of four digits
LiteralPrefix ==
    IF Len(search.q) = 4 THEN search.q \o <<"-">> ELSE search.q

\* the drivers the claim describes: handle with the literal prefix, the state given,
\* and a car make that contains the car make given (letters in any case)
Suggestable ==
    {DriverRow(row) : row \in
        {row \in drivers :
            /\ StartsWith(row.driver_handle, LiteralPrefix)
            /\ search.initialState # <<>> => row.state = search.initialState
            /\ search.initialCarMake # <<>> =>
                  /\ ~row.car_make.null
                  /\ Includes(ToLowerCase(row.car_make.s),
                              ToLowerCase(search.initialCarMake))}}

Range(s) == {s[i] : i \in DOMAIN s}

\* a plate-leading query with a name prefix, or with a disambiguator, and no driver
\* shown for it
SuggestionCase ==
    /\ SearchDone
    /\ PLATE_LEADING_RE(search.q)
    /\ Len(search.q) > 4 \/ ~NoDisambiguator
    /\ search.driver = NoDriver

\* at most 25 rows fetched, at most 20 displayed, all of them drivers the claim
\* describes
CappedSuggestions ==
    /\ Range(search.suggestions) \subseteq Suggestable
    /\ Len(search.suggestions) = Cardinality(Range(search.suggestions))
    /\ Len(search.suggestions) <= SUGGESTION_LIMIT
    /\ Len(Rendered.suggestions) <= DISPLAY_LIMIT
    /\ Range(Rendered.suggestions) \subseteq Range(search.suggestions)

\* the suggestions are all the drivers the claim describes, or 25 of them
ExactlySuggestable ==
    /\ CappedSuggestions
    /\ Len(search.suggestions) =
          IF Cardinality(Suggestable) < SUGGESTION_LIMIT THEN Cardinality(Suggestable)
          ELSE SUGGESTION_LIMIT
    /\ Len(Rendered.suggestions) =
          IF Cardinality(Suggestable) < DISPLAY_LIMIT THEN Cardinality(Suggestable)
          ELSE DISPLAY_LIMIT

\* C13 as stated: for a plate-leading query that has a name prefix (or is plate-only
\* with a disambiguator) and no exact match, the suggestions are exactly the drivers
\* whose handle starts with the literal prefix plate-namePrefix, restricted by state
\* equality and car-make containment when given; at most 25 rows are fetched and at
\* most 20 are displayed.
C13_SuggestionsExact == SuggestionCase => ExactlySuggestable

\* C13, amended: exactly those drivers when the prefix query returns without an
\* error, and no suggestions at all when it returns an error
C13_SuggestionsExactUnlessError ==
    SuggestionCase =>
        /\ search.prefixSearch
        /\ ~search.sErr => ExactlySuggestable
        /\ search.sErr => search.suggestions = <<>> /\ Rendered.suggestions = <<>>

\* more drivers than the limit have the prefix 2222-t: 25 are fetched, 20 displayed
C13_Witness ==
    /\ SuggestionCase
    /\ ~search.sErr
    /\ Cardinality(Suggestable) > SUGGESTION_LIMIT
    /\ Len(search.suggestions) = SUGGESTION_LIMIT
    /\ Len(Rendered.suggestions) = DISPLAY_LIMIT

(***************************************************************************)
(* C14                                                                     *)
(***************************************************************************)
\* the three classes of a normalized query (an exact handle may be plate-leading too)
Classes(q) ==
    (IF HANDLE_RE(q) THEN {"exact handle"} ELSE {})
       \cup (IF PLATE_LEADING_RE(q) THEN {"plate-leading"} ELSE {})
       \cup (IF ~HANDLE_RE(q) /\ ~PLATE_LEADING_RE(q) THEN {"unrecognized"} ELSE {})

\* C14: every non-empty normalized query is an exact handle, plate-leading or
\* unrecognized; when no driver is shown for it the create-driver form is offered if
\* and only if the query is plate-leading, and an unrecognized query yields only the
\* guidance message, with no lookup, no prefix search and no create form.
C14_CreateOnlyForPlateLeading ==
    SearchDone /\ search.q # <<>> =>
        /\ Classes(search.q) # {}
        /\ "exact handle" \in Classes(search.q) <=> search.exactLookup
        /\ search.driver = NoDriver =>
              (Rendered.createForm <=> "plate-leading" \in Classes(search.q))
        /\ "unrecognized" \in Classes(search.q) =>
              /\ search.helperMessage = GuidanceHelper
              /\ ~search.prefixSearch /\ search.pattern = <<>>
              /\ Rendered.suggestions = <<>> /\ Rendered.driverCard = NoDriver
              /\ ~Rendered.createForm

\* the query "mike" ended with the guidance message and no create form
C14_Witness ==
    /\ SearchDone
    /\ search.q = <<"m","i","k","e">>
    /\ search.helperMessage = GuidanceHelper
    /\ ~Rendered.createForm
    /\ drivers # {}

(***************************************************************************)
(* C15                                                                     *)
(***************************************************************************)
\* C15: the page mirrors the gate of SearchForm: for a non-empty normalized query,
\* with any state and car make, and no driver of that handle, the page sets no helper
\* message if canSubmit accepts and sets one if canSubmit refuses.
C15_ServerMirrorsCanSubmit ==
    SearchDone /\ search.q # <<>> /\ ExactMatches = {} =>
        (canSubmit(search.q, search.initialState, search.initialCarMake).ok
            <=> search.helperMessage = NoHelper)

(***************************************************************************)
(* C16                                                                     *)
(***************************************************************************)
\* x without the characters of around at its two ends
Core(x, around) ==
    LET keep == {i \in DOMAIN x : x[i] \notin around}
    IN  IF keep = {} THEN <<>>
        ELSE SubSeq(x, CHOOSE i \in keep : \A j \in keep : i <= j,
                       CHOOSE i \in keep : \A j \in keep : j <= i)

\* x spells the plate p and the first name n, in any casing, with characters of
\* around before and after
IsSpelling(x, p, n, around) == ToLowerCase(Core(x, around)) \in Spelled(p, n)

NormalizedToHandle == hq.fn = "normalizeToHandle" /\ hstep \in {"once", "twice"}

\* C16 as stated: normalizeToHandle maps every spelling of a plate p (1-4 digits) and
\* a first name n (2-24 letters) to p-n: 'p n', 'n p', 'pn', 'p-n' and 'p_n', in any
\* letter casing and with surrounding whitespace or punctuation.
C16_EverySpellingCanonical ==
    NormalizedToHandle =>
        \A p \in Plates : \A n \in FirstNames :
            IsSpelling(hq.input, p, n, Spaces \cup Punctuation) =>
                hq.out = p \o <<"-">> \o n

\* C16, amended: the same with surrounding whitespace or punctuation other than the
\* dash and the underscore
C16_SpellingCanonical ==
    NormalizedToHandle =>
        \A p \in Plates : \A n \in FirstNames :
            IsSpelling(hq.input, p, n, Spaces \cup (Punctuation \ {"-", "_"})) =>
                hq.out = p \o <<"-">> \o n

\* ". TOM 2222!" became 2222-tom
C16_Witness ==
    /\ NormalizedToHandle
    /\ hstep = "once"
    /\ hq.input = <<".", " ", "T","O","M", " ", "2","2","2","2", "!">>
    /\ hq.out = <<"2","2","2","2","-","t","o","m">>

(***************************************************************************)
(* C17                                                                     *)
(***************************************************************************)
\* a submit has just been handled with an invalid handle or without a picked state
InvalidSubmit ==
    /\ form.last.submitted
    /\ ~form.last.handleValid \/ ~form.last.statePicked

\* an insert into drivers or a POST /api/reviews is in progress
Form_Requesting == form.pc \in {"insert", "select", "post"}

\* an insert is only ever sent with a valid handle and a state of two characters
InsertOnlyWhenValid ==
    /\ Form_Requesting => HANDLE_RE(form.sent.handleInput) /\ Len(Trim(form.sent.state)) = 2
    /\ \A row \in drivers : HANDLE_RE(row.driver_handle) /\ Len(Trim(row.state)) = 2

\* the submit that has just been handled sent nothing
SentNothing ==
    /\ ~form.last.insert
    /\ ~form.last.wasLoading => ~Form_Requesting /\ ~form.loading

\* C17 as stated: an insert into drivers is issued only when the normalized handle
\* matches the pattern and a state is picked, and a submit with an invalid handle or
\* without a picked state ends with an error, no drivers insert and no POST.
C17_InvalidSubmitEndsWithError ==
    /\ InsertOnlyWhenValid
    /\ InvalidSubmit => form.error # NullError /\ SentNothing

\* C17, amended: such a submit sends no insert and no POST; it ends with the error of
\* createDriver when it gets that far, with the error about the comment when the
\* comment is over the limit, and it sets no error when it is ignored because a
\* submission is in progress or is stopped by the city gate.
C17_InvalidSubmitSendsNothing ==
    /\ InsertOnlyWhenValid
    /\ InvalidSubmit =>
          /\ SentNothing
          /\ ~form.last.wasLoading =>
                IF form.last.kind = "review" /\ Form_overLimit(form)
                THEN form.error = ShortenCommentError
                ELSE IF cityGatePasses(form)
                THEN form.error = IF form.last.statePicked THEN HandleFormatError
                                  ELSE SelectStateError
                ELSE form.submitAttempted

\* "ab" was submitted with a state picked and ended with the error about the format
C17_Witness ==
    /\ InvalidSubmit
    /\ form.last.statePicked /\ ~form.last.wasLoading
    /\ form.error = HandleFormatError
    /\ drivers # {}

(***************************************************************************)
(* C18                                                                     *)
(***************************************************************************)
Legacy == {r \in Requests : req[r].handler = "rollback"}

\* the reviews insert of a failed after its rate-limit row had been inserted, and a
\* has been answered
ReviewInsertFailed(a) ==
    /\ a \in Answered
    /\ req[a].rlErr = NoError
    /\ Failed(req[a].reviewErr)

\* C18: in the handler with rollback, when the reviews insert fails after the
\* rate-limit row was inserted, the row is deleted before the 500 response, so a
\* later retry by the same requester for the same driver is not answered 429.
C18_RetryNotRateLimited ==
    \A a \in Legacy :
        ReviewInsertFailed(a) =>
            /\ req[a].status = 500
            /\ RowsBy(a).rl = {}
            /\ \A b \in Legacy \ {a} :
                  /\ b \in Answered /\ Sequential(a, b) /\ SameRequester(a, b)
                  /\ \A c \in Requests \ {a, b} : ~(Submitted(c) /\ SameRequester(a, c))
                  => req[b].status # 429

(***************************************************************************)
(* C19                                                                     *)
(***************************************************************************)
NoneInFlight == \A r \in Requests : req[r].pc \in {"idle", "done"}

\* C19: in the moderated handler, whenever no request is in flight, every row of
\* review_rate_limits corresponds to a review saved by the request that inserted the
\* row; a requester is answered 429 for a driver only if one of their reviews for
\* that driver was saved.
C19_RateLimitRowHasReview ==
    NoneInFlight =>
        /\ \A row \in review_rate_limits :
              \E v \in reviews : v.by = row.by /\ v.driver_id = row.driver_id
        /\ \A r \in Moderated :
              req[r].status = 429 =>
                  \E c \in Moderated : SameRequester(r, c) /\ RowsBy(c).rv # {}

(***************************************************************************)
(* C20                                                                     *)
(***************************************************************************)
\* C20: a ReviewForm instance never has two POST /api/reviews requests in flight: a
\* submit event (button click, Cmd/Ctrl+Enter) that arrives while a previous
\* submission has not completed issues no request.
C20_OnePostInFlight ==
    /\ Len(rf.posts) <= 1
    /\ rf.last.whileLoading => ~rf.last.issued
    /\ rf.posts # <<>> => rf.loading

\* Cmd/Ctrl+Enter arrived while the POST of a review with a tag was in flight
C20_Witness ==
    /\ Len(rf.posts) = 1
    /\ rf.posts[1].tagIds # {}
    /\ rf.last.event = "cmd+enter"
    /\ rf.last.whileLoading
    /\ ~rf.last.issued

(***************************************************************************)
(* C21                                                                     *)
(***************************************************************************)
\* the rating, the comment, the selected tags and the toast are what they were
FieldsKept ==
    /\ rf'.stars = rf.stars
    /\ rf'.commentCount = rf.commentCount
    /\ rf'.selectedTagIds = rf.selectedTagIds
    /\ rf'.toast = rf.toast

FieldsReset == rf'.stars = 5 /\ rf'.commentCount = 0 /\ rf'.selectedTagIds = {}

SubmitEvents == {"click", "cmd+enter", "submit"}

\* C21: ReviewForm.onSubmit resets the form (stars = 5, comment empty, no tags
\* selected) only after a successful response; a submission blocked for an over-long
\* comment, a response that is not ok and a fetch that throws leave stars, comment and
\* selected tags unchanged: only error and loading change.
C21_ResetOnlyAfterSuccess ==
    [][LET e == rf'.last.event
       IN  /\ e \in SubmitEvents \cup {"api error", "no message", "threw"} => FieldsKept
           /\ e \in {"ok", "ok, storage threw"} => FieldsReset]_vars

\* a POST of four stars, a comment and a tag was refused by the API: the form still
\* holds them
C21_Witness ==
    /\ rf.last.event = "api error"
    /\ rf.stars = 4
    /\ rf.commentCount = MAX_COMMENT_CHARS
    /\ rf.selectedTagIds = {"t1"}
    /\ rf.error # NullError
    /\ ~rf.loading

\* a submit event was blocked for a comment over the limit
C21_WitnessBlocked ==
    /\ rf.last.event = "submit"
    /\ ~rf.last.issued
    /\ rf.commentCount > MAX_COMMENT_CHARS
    /\ rf.error = ShortenCommentError
    /\ rf.stars = 3

(***************************************************************************)
(* C22                                                                     *)
(***************************************************************************)
\* C22: in ReviewForm and CreateDriverForm loading always returns to false: on every
\* path of onSubmit, onCreateOnly and onCreateAndReview (success, response not ok,
\* thrown error, failure of createDriver), once the pending requests have completed
\* loading is false again.
C22_LoadingReturnsToFalse ==
    /\ rf.posts = <<>> => ~rf.loading
    /\ form.pc = "idle" => ~form.loading

\* onCreateAndReview has created the driver, the fetch of the review threw, and the
\* form is enabled again
C22_Witness ==
    /\ form.pc = "idle"
    /\ form.driverId # 0
    /\ form.error = "Failed to create driver and post review."
    /\ ~form.loading

\* ReviewForm is enabled again after its POST was refused
C22_WitnessReview ==
    /\ rf.last.event = "no message"
    /\ rf.error = PostFailedError
    /\ rf.posts = <<>>
    /\ ~rf.loading

(***************************************************************************)
(* C23                                                                     *)
(***************************************************************************)
\* the calls of city_suggestions that answer in this step
AnsweredNow == city.rpcs \ city'.rpcs

\* C23: in the city autocomplete, under any interleaving of input events, debounce
\* timers and responses, citySuggestions is only ever set from the response of the most
\* recently issued fetch, the one that holds the current cityFetchId; a response to a
\* superseded fetch changes no state.
C23_OnlyCurrentResponseApplied ==
    [][/\ \A r \in AnsweredNow :
            r.id # city.cityFetchId =>
                /\ form' = [form EXCEPT !.last = NoSubmit]
                /\ city' = [city EXCEPT !.rpcs = @ \ {r},
                                        !.last = [id |-> r.id, applied |-> FALSE]]
       /\ form'.fields.citySuggestions \notin {{}, form.fields.citySuggestions} =>
            \E r \in AnsweredNow :
                /\ r.id = city.cityFetchId
                /\ r.id = city.issued
                /\ \A o \in city.rpcs : o.id <= r.id
                /\ form'.fields.citySuggestions = city_suggestions(r.p_state, r.p_query)
      ]_vars

\* the response to a superseded fetch has just been dropped while the fetch that
\* superseded it has not answered
C23_Witness ==
    /\ city.last.id # 0
    /\ ~city.last.applied
    /\ city.last.id < city.cityFetchId
    /\ \E r \in city.rpcs : r.id = city.cityFetchId
    /\ city.cityLoading

(***************************************************************************)
(* C24                                                                     *)
(***************************************************************************)
\* C24: cityLoading is true only while a fetch whose response will be applied is
\* outstanding: in every state where no debounce timer is pending and every call of
\* city_suggestions has answered, cityLoading is false.
C24_LoadingOnlyWhileFetching ==
    (city.timer = NoTimer /\ city.rpcs = {}) => ~city.cityLoading

(***************************************************************************)
(* C25                                                                     *)
(***************************************************************************)
\* the submit that has just been handled asked to insert a driver with a city
SavesCity == form.last.insert /\ form.sent.cityToSave # SqlNull

\* the typed city is in the list, and the list is the response for the state saved
ValidatedForSavedState ==
    /\ \E n \in form.fields.citySuggestions :
          ToLowerCase(Trim(n)) = ToLowerCase(Trim(form.fields.cityInput))
    /\ city.suggestionsFor = form.sent.state

\* C25: CreateDriverForm inserts a driver with a non-null city only if the trimmed city
\* text equals, letter case ignored, a suggestion returned for the state being saved,
\* or the user chose "Enter anyway" for that text; after any sequence of state and
\* city events a city validated against the suggestions of one state is never saved
\* under another state.
C25_CityValidatedForSavedState ==
    SavesCity => form.fields.cityDecision = "enter_anyway" \/ ValidatedForSavedState

====
